---- MODULE Spec2Model ----
(***************************************************************************)
(* Matrix game server (src/server/index.js): the room registry, the round  *)
(* state machine, the fair board generator and the disconnect watchdog.    *)
(*                                                                         *)
(* Rooms are JavaScript objects held by the `rooms` Map and by the timer   *)
(* closures: `heap` keeps every room object by id, `rooms` the ids that    *)
(* are keys of the Map.  Room ids and socket ids are fresh random strings  *)
(* in the code; here they are handed out in increasing order.              *)
(* null is modelled by 0 for socket ids and timestamps, by NoPick for a    *)
(* pick and by NullBoard for the board.  Board rows and columns 0..2 are   *)
(* the sequence positions 1..3.                                            *)
(***************************************************************************)
EXTENDS Integers, Sequences, FiniteSets, TLC

VARIABLES
    rooms,           \* keys of the rooms Map
    heap,            \* room objects by id
    nextRoomId,      \* next fresh room id
    lastCreateByIp,  \* requester key -> time of last creation
    clock,           \* last value Date.now() returned
    connected,       \* socket ids with a live connection
    nextSocketId,    \* next fresh socket id
    timers,          \* pending setTimeout callbacks, in scheduling order
    out,             \* events emitted by the last handler
    resolvedInRound, \* per room: resolutions since the last gameStart/nextRound
    finalRound,      \* per room: round LastRound's resolution since the last gameStart
    gen              \* one call of genFairBoard: switches, scores, draws, result

vars == <<rooms, heap, nextRoomId, lastCreateByIp, clock, connected,
          nextSocketId, timers, out, resolvedInRound, finalRound, gen>>

---------------------------------------------------------------------------
(* Bounds of the model *)

NumRooms == 2
NumSockets == 3
NumIps == 1
MaxRoundTasks == 2
MaxClockSteps == 1
NumRawBoards == 1
NumGameRooms == 1
NumGameSockets == 2
NumGenBoards == 5
NumLobbyIps == 2
MaxPlayRound == 2

(* Configuration (defaults of src/server/index.js, lines 12-34) *)

Candidates == 2
MeanLimit == 12
SpreadLimit == 90
ExtremeStart == 45
MaxBias == 6
BiasStep == 25
RoundDelayMs == 700
DisconnectGraceMs == 60000
CreateCooldownMs == 3000
FairMode == TRUE
RubberBand == TRUE

CellMin == -60
CellMax == 60
LastRound == 9

(* Date.now() when the server starts, and the granularity of its readings *)
StartTime == 100000
ClockStepMs == 3000

NoSocket == 0
NoTime == 0
NoPick == -1
NullBoard == <<>>

Teams == {"A", "B"}
RoomIds == 1..NumRooms
SocketIds == 1..NumSockets
Ips == 1..NumIps


---------------------------------------------------------------------------
(* Utils *)

(* A clamp that cuts at the upper end only *)
clampAbove(v, min, max) == IF max < v THEN max ELSE v

clamp(v, min, max) ==
    LET m == IF max < v THEN max ELSE v
    IN  IF min > m THEN min ELSE m

Abs(x) == IF x < 0 THEN -x ELSE x

Max2(x, y) == IF x < y THEN y ELSE x
Min2(x, y) == IF y < x THEN y ELSE x
Max3(s) == Max2(s[1], Max2(s[2], s[3]))
Min3(s) == Min2(s[1], Min2(s[2], s[3]))
Sum3(s) == s[1] + s[2] + s[3]

(* Math.round(num / den) for den > 0: floor(num/den + 1/2) *)
MathRound(num, den) == (2 * num + den) \div (2 * den)

RECURSIVE SqrtSearch(_, _, _)
SqrtSearch(n, lo, hi) ==
    IF lo >= hi THEN lo
    ELSE LET mid == (lo + hi + 1) \div 2
         IN  IF mid * mid <= n THEN SqrtSearch(n, mid, hi)
             ELSE SqrtSearch(n, lo, mid - 1)

(* floor(sqrt(n)), 0 <= n < 2^30 *)
ISqrt(n) == SqrtSearch(n, 0, Min2(n, 32767))

(* 100 * 1.2 * std(arr) for a 3-element array: std = sqrt(3*S2 - S1^2) / 3 *)
std120(arr) ==
    LET s1 == Sum3(arr)
        s2 == arr[1] * arr[1] + arr[2] * arr[2] + arr[3] * arr[3]
    IN  ISqrt(1600 * (3 * s2 - s1 * s1))

---------------------------------------------------------------------------
(* Fair board generation.  A board is 3x3 cells [a, b].  The values
   randInt(-60, 60) returns are inputs: a "raw board" holds the 18 draws of
   one candidate. *)

Cell(a, b) == [a |-> a, b |-> b]

(* The draws the model takes, one grid per k: a in {-20, 0, 20} and b in
   {-10, 0, 10}; grid 1 has every row and column sum 0 *)
RawCell(k, r, c) ==
    Cell(20 * (((r + (k + 1) * c + 1) % 3) - 1), 10 * (((2 * r + k * c) % 3) - 1))
RawRow(k, r) == <<RawCell(k, r, 0), RawCell(k, r, 1), RawCell(k, r, 2)>>
RawBoard(k) == <<RawRow(k, 0), RawRow(k, 1), RawRow(k, 2)>>

RawBoards == {RawBoard(k) : k \in 1..NumRawBoards}

genPureRandomBoard(raw) ==
    <<<<Cell(raw[1][1].a, raw[1][1].b), Cell(raw[1][2].a, raw[1][2].b),
        Cell(raw[1][3].a, raw[1][3].b)>>,
      <<Cell(raw[2][1].a, raw[2][1].b), Cell(raw[2][2].a, raw[2][2].b),
        Cell(raw[2][3].a, raw[2][3].b)>>,
      <<Cell(raw[3][1].a, raw[3][1].b), Cell(raw[3][2].a, raw[3][2].b),
        Cell(raw[3][3].a, raw[3][3].b)>>>>

rowSumOfA(row) == row[1].a + row[2].a + row[3].a
rowSumA(board) == <<rowSumOfA(board[1]), rowSumOfA(board[2]), rowSumOfA(board[3])>>
colSumOfB(board, c) == board[1][c].b + board[2][c].b + board[3][c].b
colSumB(board) == <<colSumOfB(board, 1), colSumOfB(board, 2), colSumOfB(board, 3)>>
rowWorstOfA(row) == Min2(row[1].a, Min2(row[2].a, row[3].a))
rowWorstA(board) == <<rowWorstOfA(board[1]), rowWorstOfA(board[2]), rowWorstOfA(board[3])>>
colWorstOfB(board, c) == Min2(board[1][c].b, Min2(board[2][c].b, board[3][c].b))
colWorstB(board) == <<colWorstOfB(board, 1), colWorstOfB(board, 2), colWorstOfB(board, 3)>>

Excess(x, start) == IF x - start > 0 THEN x - start ELSE 0

(* Sum over the cells of max(0, |a| - EXTREME_START) + max(0, |b| - EXTREME_START) *)
extremeOfRow(row) ==
      Excess(Abs(row[1].a), ExtremeStart) + Excess(Abs(row[1].b), ExtremeStart)
    + Excess(Abs(row[2].a), ExtremeStart) + Excess(Abs(row[2].b), ExtremeStart)
    + Excess(Abs(row[3].a), ExtremeStart) + Excess(Abs(row[3].b), ExtremeStart)
extremeExcess(board) ==
    extremeOfRow(board[1]) + extremeOfRow(board[2]) + extremeOfRow(board[3])

catastrophic(worst) ==
    Excess(-worst[1], 12) + Excess(-worst[2], 12) + Excess(-worst[3], 12)

(* scoreBoard: score is 100 times the code's score (the weights 1.2, 0.15,
   0.6, 1.1 become integers; the square root is rounded down); sumA and sumB
   are 3 * meanA and 3 * meanB. *)
scoreBoard(board) ==
    LET rsA == rowSumA(board)
        csB == colSumB(board)
        rwA == rowWorstA(board)
        cwB == colWorstB(board)
        guaranteeA == Max3(rwA)
        guaranteeB == Max3(cwB)
        dominancePenalty == Excess(Abs(guaranteeA), 5) + Excess(Abs(guaranteeB), 5)
        catastrophicPenalty == catastrophic(rwA) + catastrophic(cwB)
        sumA == Sum3(rsA)
        sumB == Sum3(csB)
        spreadA == Max3(rsA) - Min3(rsA)
        spreadB == Max3(csB) - Min3(csB)
    IN  [score |-> std120(rsA) + std120(csB)
                 + 40 * (Abs(sumA) + Abs(sumB))
                 + 15 * (spreadA + spreadB)
                 + 60 * extremeExcess(board)
                 + 110 * dominancePenalty
                 + 60 * catastrophicPenalty,
         sumA |-> sumA, sumB |-> sumB,
         spreadA |-> spreadA, spreadB |-> spreadB]

(* A candidate cell with the two biases exchanged *)
candidateCellSwapped(cell, biasA, biasB) ==
    Cell(clamp(cell.a + biasB, CellMin, CellMax), clamp(cell.b + biasA, CellMin, CellMax))

candidateCell(cell, biasA, biasB) ==
    Cell(clamp(cell.a + biasA, CellMin, CellMax), clamp(cell.b + biasB, CellMin, CellMax))
candidateRow(row, biasA, biasB) ==
    <<candidateCell(row[1], biasA, biasB), candidateCell(row[2], biasA, biasB),
      candidateCell(row[3], biasA, biasB)>>
genCandidateBoard(raw, biasA, biasB) ==
    <<candidateRow(raw[1], biasA, biasB), candidateRow(raw[2], biasA, biasB),
      candidateRow(raw[3], biasA, biasB)>>

(* A rubber band that is off by one step *)
rubberBiasOffset(scores) ==
    clamp(MathRound(scores.A - scores.B, BiasStep) + 1, -MaxBias, MaxBias)

(* A rubber band without the clamp to MAX_BIAS *)
rubberBiasUnclamped(rubber, scores) ==
    IF rubber THEN MathRound(scores.A - scores.B, BiasStep) ELSE 0

(* The rubber-band bias of genFairBoard, by the RUBBER_BAND switch *)
rubberBiasWith(rubber, scores) ==
    IF rubber
    THEN clamp(MathRound(scores.A - scores.B, BiasStep), -MaxBias, MaxBias)
    ELSE 0

rubberBias(scores) == rubberBiasWith(RubberBand, scores)

(* |mean| <= MEAN_LIMIT and spread <= SPREAD_LIMIT, for both roles *)
passesHard(s) ==
    /\ Abs(s.sumA) <= 3 * MeanLimit
    /\ Abs(s.sumB) <= 3 * MeanLimit
    /\ s.spreadA <= SpreadLimit
    /\ s.spreadB <= SpreadLimit

(* scoreBoard of the boards the model's draws produce, computed once *)
KnownBoards ==
    {genCandidateBoard(RawBoard(k), -b, b) : k \in 1..NumRawBoards, b \in -MaxBias..MaxBias}
ScoreCache == {[board |-> bd, s |-> scoreBoard(bd)] : bd \in KnownBoards}
scoreOf(board) ==
    IF board \in KnownBoards THEN (CHOOSE e \in ScoreCache : e.board = board).s
    ELSE scoreBoard(board)

(* One pass of genFairBoard over the draws i..Candidates: `best` is the best
   candidate so far (NullBoard: none) and bestScore its score; a later
   candidate replaces it only with a strictly lower score. *)
(* A pass that keeps its first survivor whatever the later scores *)
RECURSIVE bestOfFirst(_, _, _, _, _, _, _)
bestOfFirst(draws, biasA, biasB, filter, i, best, bestScore) ==
    IF i > Candidates THEN best
    ELSE LET board == genCandidateBoard(draws[i], biasA, biasB)
             s == scoreOf(board)
             keep == (~filter \/ passesHard(s)) /\ best = NullBoard
         IN  IF keep THEN bestOfFirst(draws, biasA, biasB, filter, i + 1, board, s.score)
             ELSE bestOfFirst(draws, biasA, biasB, filter, i + 1, best, bestScore)

RECURSIVE bestOf(_, _, _, _, _, _, _)
bestOf(draws, biasA, biasB, filter, i, best, bestScore) ==
    IF i > Candidates THEN best
    ELSE LET board == genCandidateBoard(draws[i], biasA, biasB)
             s == scoreOf(board)
             keep == (~filter \/ passesHard(s))
                     /\ (best = NullBoard \/ s.score < bestScore)
         IN  IF keep THEN bestOf(draws, biasA, biasB, filter, i + 1, board, s.score)
             ELSE bestOf(draws, biasA, biasB, filter, i + 1, best, bestScore)

(* A generator without the second pass *)
fairBoardOnePass(fair, bias, draws1, draws2) ==
    IF ~fair THEN genPureRandomBoard(draws1[1])
    ELSE bestOf(draws1, -bias, bias, TRUE, 1, NullBoard, 0)

(* The body of genFairBoard by the FAIR_MODE switch and the bias: draws1
   and draws2 are the raw boards of the two passes (each a sequence of
   Candidates raw boards). *)
fairBoard(fair, bias, draws1, draws2) ==
    IF ~fair THEN genPureRandomBoard(draws1[1])
    ELSE LET best1 == bestOf(draws1, -bias, bias, TRUE, 1, NullBoard, 0)
         IN  IF best1 # NullBoard THEN best1
             ELSE bestOf(draws2, -bias, bias, FALSE, 1, NullBoard, 0)

genFairBoard(scores, draws1, draws2) ==
    fairBoard(FairMode, rubberBias(scores), draws1, draws2)

(* The draws of the second pass: made only when the first pass keeps none *)
secondDraws(fair, bias, draws1, pool) ==
    IF fair /\ bestOf(draws1, -bias, bias, TRUE, 1, NullBoard, 0) = NullBoard
    THEN pool ELSE {draws1}

pass2Draws(scores, draws1, pool) ==
    secondDraws(FairMode, rubberBias(scores), draws1, pool)

DrawsFrom(n) == [1..Candidates -> {RawBoard(k) : k \in 1..n}]
Draws == DrawsFrom(NumRawBoards)

---------------------------------------------------------------------------
(* Rooms state.  A handler runs to completion on a "world" W: the registry,
   the room objects, the pending timers and the events emitted so far. *)

NoScores == [A |-> 0, B |-> 0]
NoPicks == [A |-> NoPick, B |-> NoPick]

NewRoom(id, now) ==
    [id |-> id, createdAt |-> now,
     players |-> [A |-> NoSocket, B |-> NoSocket],
     round |-> 0, scores |-> NoScores, picks |-> NoPicks,
     board |-> NullBoard, active |-> FALSE,
     offlineSince |-> [A |-> NoTime, B |-> NoTime],
     disconnectTimers |-> [A |-> FALSE, B |-> FALSE]]

World == [rooms |-> rooms, heap |-> heap, timers |-> timers, out |-> <<>>]

(* io.to(rid).emit (to = NoSocket) and socket.emit (to = the socket) *)
Event(type, rid, to, data) == [type |-> type, rid |-> rid, to |-> to, data |-> data]
emit(W, ev) == [W EXCEPT !.out = Append(@, ev)]
Message(m) == [message |-> m]

publicState(room) ==
    [roomId |-> room.id,
     players |-> [A |-> room.players.A # NoSocket, B |-> room.players.B # NoSocket],
     round |-> room.round, scores |-> room.scores, picks |-> room.picks,
     board |-> room.board, active |-> room.active]



RoundTask(kind, rid, finalScores, winner) ==
    [kind |-> kind, rid |-> rid, team |-> "", at |-> NoTime,
     finalScores |-> finalScores, winner |-> winner]
GraceTask(rid, team, offlineAt) ==
    [kind |-> "grace", rid |-> rid, team |-> team, at |-> offlineAt,
     finalScores |-> NoScores, winner |-> ""]

setTimeout(W, task) == [W EXCEPT !.timers = Append(@, task)]

(* A clearTimeout that leaves the callback scheduled *)
clearTimeoutLeaves(W, rid, team) == W

(* clearTimeout of the grace timer of (rid, team) *)
clearTimeout(W, rid, team) ==
    LET Keep(e) == ~(e.kind = "grace" /\ e.rid = rid /\ e.team = team)
    IN  [W EXCEPT !.timers = SelectSeq(@, Keep)]

(* A clearing of the picks that also stops the grace timers of the room *)
resetPicksAndTimers(W, rid) ==
    [clearTimeout(clearTimeout(W, rid, "A"), rid, "B")
        EXCEPT !.heap[rid].picks = NoPicks]

resetPicks(W, rid) == [W EXCEPT !.heap[rid].picks = NoPicks]

(* A clearing of the tag and the flag that leaves the timer running *)
clearDisconnectTagOnly(W, rid, team) ==
    [W EXCEPT !.heap[rid].disconnectTimers[team] = FALSE,
              !.heap[rid].offlineSince[team] = NoTime]

clearDisconnectTimer(W, rid, team) ==
    LET W1 == IF W.heap[rid].disconnectTimers[team]
              THEN [clearTimeout(W, rid, team)
                        EXCEPT !.heap[rid].disconnectTimers[team] = FALSE]
              ELSE W
    IN  [W1 EXCEPT !.heap[rid].offlineSince[team] = NoTime]

(* A reset that leaves the round and the board of the abandoned game *)
resetRoomKeepGame(W, rid) ==
    LET W1 == [W EXCEPT !.heap[rid].active = FALSE,
                        !.heap[rid].scores = NoScores]
        W2 == resetPicks(W1, rid)
        W3 == [W2 EXCEPT !.heap[rid].offlineSince = [A |-> NoTime, B |-> NoTime]]
    IN  clearDisconnectTimer(clearDisconnectTimer(W3, rid, "A"), rid, "B")

resetRoomAfterLeave(W, rid) ==
    LET W1 == [W EXCEPT !.heap[rid].active = FALSE,
                        !.heap[rid].round = 0,
                        !.heap[rid].scores = NoScores]
        W2 == resetPicks(W1, rid)
        W3 == [W2 EXCEPT !.heap[rid].board = NullBoard,
                         !.heap[rid].offlineSince = [A |-> NoTime, B |-> NoTime]]
    IN  clearDisconnectTimer(clearDisconnectTimer(W3, rid, "A"), rid, "B")

(* A capacity test that never finds the role occupied *)
seatTakenNever(room, team, s) == FALSE

(* The role is occupied by another socket *)
seatTaken(room, team, s) ==
    room.players[team] # NoSocket /\ room.players[team] # s

(* A test that never finds an earlier pick *)
hasPickNever(room, team) == FALSE

hasPick(room, team) == room.picks[team] # NoPick

bothPicked(room) == room.picks.A # NoPick /\ room.picks.B # NoPick

hasPlayers(room) == room.players.A # NoSocket \/ room.players.B # NoSocket

NoTeam == "null"

(* An open role that is B whenever A is occupied *)
availableTeamByA(room) ==
    IF room.players.A # NoSocket THEN "B"
    ELSE IF room.players.B # NoSocket THEN "A" ELSE NoTeam

availableTeam(room) ==
    LET hasA == room.players.A # NoSocket
        hasB == room.players.B # NoSocket
    IN  IF hasA /\ ~hasB THEN "B"
        ELSE IF ~hasA /\ hasB THEN "A"
        ELSE NoTeam

(* Array.from(rooms.values()): the rooms of the registry in insertion order *)
RECURSIVE mapValues(_, _, _)
mapValues(reg, hp, rid) ==
    IF rid > NumRooms THEN <<>>
    ELSE (IF rid \in reg THEN <<hp[rid]>> ELSE <<>>) \o mapValues(reg, hp, rid + 1)

summary(room) ==
    [roomId |-> room.id,
     availableTeam |-> availableTeam(room),
     players |-> [A |-> room.players.A # NoSocket, B |-> room.players.B # NoSocket],
     active |-> room.active,
     createdAt |-> room.createdAt]

(* sort((a, b) => b.createdAt - a.createdAt), stable: x goes behind the
   elements that are not older *)
insertNewestFirst(sorted, x) ==
    LET k == Cardinality({i \in 1..Len(sorted) : sorted[i].createdAt >= x.createdAt})
    IN  SubSeq(sorted, 1, k) \o <<x>> \o SubSeq(sorted, k + 1, Len(sorted))

RECURSIVE sortNewestFirst(_, _)
sortNewestFirst(seq, n) ==
    IF n = 0 THEN <<>>
    ELSE insertNewestFirst(sortNewestFirst(seq, n - 1), seq[n])

listRooms(reg, hp) ==
    LET withPlayers == SelectSeq(mapValues(reg, hp, 1), hasPlayers)
        summaries == [i \in 1..Len(withPlayers) |-> summary(withPlayers[i])]
    IN  sortNewestFirst(summaries, Len(summaries))

(* A clean-up that resets the room and never deletes it *)
cleanupKeepRoom(W, rid) == resetRoomAfterLeave(W, rid)

cleanupRoomAfterDeparture(W, rid) ==
    IF hasPlayers(W.heap[rid]) THEN resetRoomAfterLeave(W, rid)
    ELSE [W EXCEPT !.rooms = @ \ {rid}]

(* A start that keeps the scores of the game before *)
startGameKeepScores(W, rid, draws1, draws2) ==
    LET W1 == [W EXCEPT !.heap[rid].active = TRUE,
                        !.heap[rid].round = 1]
        W2 == resetPicks(W1, rid)
        W3 == [W2 EXCEPT !.heap[rid].board =
                   genFairBoard(W2.heap[rid].scores, draws1, draws2)]
    IN  clearDisconnectTimer(clearDisconnectTimer(W3, rid, "A"), rid, "B")

startGame(W, rid, draws1, draws2) ==
    LET W1 == [W EXCEPT !.heap[rid].active = TRUE,
                        !.heap[rid].round = 1,
                        !.heap[rid].scores = NoScores]
        W2 == resetPicks(W1, rid)
        W3 == [W2 EXCEPT !.heap[rid].board =
                   genFairBoard(W2.heap[rid].scores, draws1, draws2)]
    IN  clearDisconnectTimer(clearDisconnectTimer(W3, rid, "A"), rid, "B")

(* A resolution that reads the cell at (col, row) *)
resolveRoundTransposed(room) ==
    LET row == room.picks.A
        col == room.picks.B
        cell == room.board[col + 1][row + 1]
    IN  [chosen |-> [row |-> row, col |-> col],
         delta |-> [A |-> cell.a, B |-> cell.b],
         scores |-> [A |-> room.scores.A + cell.a, B |-> room.scores.B + cell.b]]

(* resolveRound: the result it returns; the scores it leaves in the room are
   result.scores *)
resolveRound(room) ==
    LET row == room.picks.A
        col == room.picks.B
        cell == room.board[row + 1][col + 1]
        deltaA == cell.a
        deltaB == cell.b
    IN  [chosen |-> [row |-> row, col |-> col],
         delta |-> [A |-> deltaA, B |-> deltaB],
         scores |-> [A |-> room.scores.A + deltaA, B |-> room.scores.B + deltaB]]

(* The teams socket s occupies in a room, and the room with s removed from
   them *)
teamsOf(room, s) == {team \in Teams : room.players[team] = s}

(* A departure that empties the seats of the teams in every room *)
vacateEverywhere(W, rid, teams) ==
    [W EXCEPT !.heap = [r \in DOMAIN W.heap |->
        [W.heap[r] EXCEPT !.players = [team \in Teams |->
            IF team \in teams THEN NoSocket ELSE W.heap[r].players[team]]]]]

RECURSIVE vacate(_, _, _)
vacate(W, rid, teams) ==
    IF teams = {} THEN W
    ELSE LET team == IF "A" \in teams THEN "A" ELSE "B"
             W1 == [W EXCEPT !.heap[rid].players[team] = NoSocket]
             W2 == clearDisconnectTimer(W1, rid, team)
         IN  vacate(W2, rid, teams \ {team})

RECURSIVE detachFrom(_, _, _, _)
detachFrom(W, s, keepRoomId, rid) ==
    IF rid > NumRooms THEN W
    ELSE IF rid \notin W.rooms \/ rid = keepRoomId
              \/ teamsOf(W.heap[rid], s) = {}
         THEN detachFrom(W, s, keepRoomId, rid + 1)
         ELSE LET W1 == vacate(W, rid, teamsOf(W.heap[rid], s))
                  W2 == resetRoomAfterLeave(W1, rid)
                  W3 == emit(W2, Event("opponentLeft", rid, NoSocket,
                                       Message("opponent left, game over")))
                  W4 == emit(W3, Event("roomState", rid, NoSocket,
                                       publicState(W3.heap[rid])))
                  W5 == cleanupRoomAfterDeparture(W4, rid)
              IN  detachFrom(W5, s, keepRoomId, rid + 1)

(* A join that leaves the socket's other seats alone *)
detachNone(W, s, keepRoomId) == W

detachFromOtherRooms(W, s, keepRoomId) == detachFrom(W, s, keepRoomId, 1)

winnerOf(finalScores) ==
    IF finalScores.A = finalScores.B THEN "DRAW"
    ELSE IF finalScores.A > finalScores.B THEN "A" ELSE "B"

(* A resolution that empties the picks at once instead of leaving that to
   the callback *)
finishRoundAndClear(W, rid) ==
    LET result == resolveRound(W.heap[rid])
        W1 == resetPicks([W EXCEPT !.heap[rid].scores = result.scores], rid)
        room == W1.heap[rid]
        W2 == emit(W1, Event("roundResult", rid, NoSocket,
                   [chosen |-> result.chosen, delta |-> result.delta,
                    scores |-> result.scores, board |-> room.board,
                    round |-> room.round]))
    IN  IF room.round >= LastRound
        THEN setTimeout(W2, RoundTask("over", rid, room.scores, winnerOf(room.scores)))
        ELSE setTimeout(W2, RoundTask("next", rid, NoScores, ""))

finishRound(W, rid) ==
    LET result == resolveRound(W.heap[rid])
        W1 == [W EXCEPT !.heap[rid].scores = result.scores]
        room == W1.heap[rid]
        W2 == emit(W1, Event("roundResult", rid, NoSocket,
                   [chosen |-> result.chosen, delta |-> result.delta,
                    scores |-> result.scores, board |-> room.board,
                    round |-> room.round]))
    IN  IF room.round >= LastRound
        THEN setTimeout(W2, RoundTask("over", rid, room.scores, winnerOf(room.scores)))
        ELSE setTimeout(W2, RoundTask("next", rid, NoScores, ""))

---------------------------------------------------------------------------
(* Inputs of the handlers *)

(* A room id as sent, after String(roomId || "").trim().toUpperCase():
   EmptyRid is the empty string, the others may or may not name a room *)
EmptyRid == 0
RidInputs == {EmptyRid} \cup RoomIds
TeamInputs == {"A", "B", "C"}

(* The row / col value as sent, a JavaScript value *)
JsNumber(n) == [t |-> "number", v |-> n]
JsNull == [t |-> "null", v |-> 0]
JsUndefined == [t |-> "undefined", v |-> 0]


(* Number(x): null is 0, undefined is NaN *)
Number(x) ==
    IF x.t = "number" THEN [nan |-> FALSE, v |-> x.v]
    ELSE IF x.t = "null" THEN [nan |-> FALSE, v |-> 0]
    ELSE [nan |-> TRUE, v |-> 0]

(* [0, 1, 2].includes(n) *)
validIndex(n) == ~n.nan /\ n.v \in {0, 1, 2}

(* Date.now(): not before the last reading, in steps of ClockStepMs *)
Readings == {t \in {StartTime + k * ClockStepMs : k \in 0..MaxClockSteps} : t >= clock}

(* Pending round-delay callbacks *)
roundTasks(tm) == LET IsRound(e) == e.kind # "grace" IN SelectSeq(tm, IsRound)

---------------------------------------------------------------------------
(* The observer of the emitted events: resolutions per room since the last
   gameStart or nextRound (counted up to 2) *)

RECURSIVE observe(_, _, _)
observe(cnt, evs, i) ==
    IF i > Len(evs) THEN cnt
    ELSE LET e == evs[i]
             c1 == IF e.type = "roundResult"
                   THEN [cnt EXCEPT ![e.rid] = IF @ < 2 THEN @ + 1 ELSE @]
                   ELSE IF e.type \in {"gameStart", "nextRound"}
                   THEN [cnt EXCEPT ![e.rid] = 0]
                   ELSE cnt
         IN  observe(c1, evs, i + 1)

(* Whether round LastRound has been resolved since the last gameStart, and
   the totals its roundResult reported *)
NotResolved == [resolved |-> FALSE, totals |-> NoScores]

RECURSIVE observeFinal(_, _, _)
observeFinal(fr, evs, i) ==
    IF i > Len(evs) THEN fr
    ELSE LET e == evs[i]
             f1 == IF e.type = "roundResult" /\ e.data.round = LastRound
                   THEN [fr EXCEPT ![e.rid] = [resolved |-> TRUE, totals |-> e.data.scores]]
                   ELSE IF e.type = "gameStart"
                   THEN [fr EXCEPT ![e.rid] = NotResolved]
                   ELSE fr
         IN  observeFinal(f1, evs, i + 1)

Commit(W) ==
    /\ rooms' = W.rooms
    /\ heap' = W.heap
    /\ timers' = W.timers
    /\ out' = W.out
    /\ resolvedInRound' = observe(resolvedInRound, W.out, 1)
    /\ finalRound' = observeFinal(finalRound, W.out, 1)
    /\ gen' = gen

ErrorMsg(W, s, rid, m) == emit(W, Event("errorMsg", rid, s, Message(m)))

---------------------------------------------------------------------------
(* HTTP API *)

(* POST /api/rooms *)
(* A handler that records the time of every request, rejected or not *)
createRoomStamping(ip, now) ==
    /\ clock' = now
    /\ lastCreateByIp' = [lastCreateByIp EXCEPT ![ip] = now]
    /\ LET last == lastCreateByIp[ip]
           diff == now - last
       IN  IF diff < CreateCooldownMs
           THEN /\ out' = <<Event("429", EmptyRid, NoSocket,
                        [wait |-> (CreateCooldownMs - diff + 999) \div 1000])>>
                /\ UNCHANGED <<rooms, heap, nextRoomId>>
           ELSE /\ nextRoomId \in DOMAIN heap
                /\ rooms' = rooms \cup {nextRoomId}
                /\ heap' = [heap EXCEPT ![nextRoomId] = NewRoom(nextRoomId, now)]
                /\ nextRoomId' = nextRoomId + 1
                /\ out' = <<Event("200", nextRoomId, NoSocket, [roomId |-> nextRoomId])>>
    /\ UNCHANGED <<connected, nextSocketId, timers, resolvedInRound, finalRound, gen>>

(* POST /api/rooms by requester key ip when Date.now() returns now *)
createRoomAt(ip, now) ==
    /\ clock' = now
    /\ LET last == lastCreateByIp[ip]
           diff == now - last
       IN  IF diff < CreateCooldownMs
           THEN /\ out' = <<Event("429", EmptyRid, NoSocket,
                        [wait |-> (CreateCooldownMs - diff + 999) \div 1000])>>
                /\ UNCHANGED <<rooms, heap, nextRoomId, lastCreateByIp>>
           ELSE /\ nextRoomId \in DOMAIN heap
                /\ lastCreateByIp' = [lastCreateByIp EXCEPT ![ip] = now]
                /\ rooms' = rooms \cup {nextRoomId}
                /\ heap' = [heap EXCEPT ![nextRoomId] = NewRoom(nextRoomId, now)]
                /\ nextRoomId' = nextRoomId + 1
                /\ out' = <<Event("200", nextRoomId, NoSocket, [roomId |-> nextRoomId])>>
    /\ UNCHANGED <<connected, nextSocketId, timers, resolvedInRound, finalRound, gen>>

createRoom(ip, now) ==
    /\ now \in Readings
    /\ createRoomAt(ip, now)

(* GET /api/rooms/list *)
listRoomsRequest ==
    /\ out' = <<Event("rooms", EmptyRid, NoSocket, [rooms |-> listRooms(rooms, heap)])>>
    /\ UNCHANGED <<rooms, heap, nextRoomId, lastCreateByIp, clock, connected,
                   nextSocketId, timers, resolvedInRound, finalRound, gen>>

---------------------------------------------------------------------------
(* Socket.IO *)

connection ==
    /\ nextSocketId <= NumSockets
    /\ connected' = connected \cup {nextSocketId}
    /\ nextSocketId' = nextSocketId + 1
    /\ out' = <<>>
    /\ UNCHANGED <<rooms, heap, nextRoomId, lastCreateByIp, clock, timers,
                   resolvedInRound, finalRound, gen>>

otherTeam(team) == IF team = "A" THEN "B" ELSE "A"

joinRoomHandler(W, s, rid, team, draws1, draws2) ==
    IF rid = EmptyRid THEN ErrorMsg(W, s, rid, "room id is empty")
    ELSE IF rid \notin W.rooms THEN ErrorMsg(W, s, rid, "room not found")
    ELSE IF team # "A" /\ team # "B" THEN ErrorMsg(W, s, rid, "team must be A or B")
    ELSE
      LET W1 == detachFromOtherRooms(W, s, rid)
          room1 == W1.heap[rid]
      IN  IF seatTaken(room1, team, s)
          THEN ErrorMsg(W1, s, rid, "team is taken")
          ELSE
            LET other == otherTeam(team)
                W2 == IF room1.players[other] = s
                      THEN [W1 EXCEPT !.heap[rid].players[other] = NoSocket]
                      ELSE W1
                W3 == [W2 EXCEPT !.heap[rid].players[team] = s]
                W4 == clearDisconnectTimer(W3, rid, team)
                W5 == emit(W4, Event("roomState", rid, NoSocket,
                                     publicState(W4.heap[rid])))
                room5 == W5.heap[rid]
            IN  IF room5.players.A # NoSocket /\ room5.players.B # NoSocket
                   /\ ~room5.active
                THEN LET W6 == startGame(W5, rid, draws1, draws2)
                     IN  emit(W6, Event("gameStart", rid, NoSocket,
                                        publicState(W6.heap[rid])))
                ELSE IF room5.players.A = NoSocket \/ room5.players.B = NoSocket
                THEN emit(W5, Event("waiting", rid, s, Message("waiting for the other player")))
                ELSE W5

joinRoom(s, rid, team, pool) ==
    /\ s \in connected
    /\ \E draws1 \in pool : \E draws2 \in pass2Draws(NoScores, draws1, pool) :
           Commit(joinRoomHandler(World, s, rid, team, draws1, draws2))
    /\ UNCHANGED <<nextRoomId, lastCreateByIp, clock, connected, nextSocketId>>

(* pickRow (team A, picks.A) and pickCol (team B, picks.B) *)
pickHandler(W, s, rid, team, index) ==
    IF rid \notin W.rooms THEN ErrorMsg(W, s, rid, "room not found")
    ELSE
      LET room == W.heap[rid]
          n == Number(index)
      IN  IF ~room.active THEN ErrorMsg(W, s, rid, "game not started")
          ELSE IF room.players[team] # s THEN ErrorMsg(W, s, rid, "not your role")
          ELSE IF ~validIndex(n)
          THEN emit(W, Event("invalidPick", rid, s,
                    [message |-> "must be 0/1/2", state |-> publicState(room)]))
          ELSE IF hasPick(room, team)
          THEN emit(W, Event("invalidPick", rid, s,
                    [message |-> "already picked", state |-> publicState(room)]))
          ELSE
            LET W1 == [W EXCEPT !.heap[rid].picks[team] = n.v]
                W2 == emit(W1, Event("roomState", rid, NoSocket,
                                     publicState(W1.heap[rid])))
            IN  IF bothPicked(W2.heap[rid]) THEN finishRound(W2, rid) ELSE W2

pickRow(s, rid, row) ==
    /\ s \in connected
    /\ LET W == pickHandler(World, s, rid, "A", row)
       IN  /\ Len(roundTasks(W.timers)) <= MaxRoundTasks
           /\ Commit(W)
    /\ UNCHANGED <<nextRoomId, lastCreateByIp, clock, connected, nextSocketId>>

pickCol(s, rid, col) ==
    /\ s \in connected
    /\ LET W == pickHandler(World, s, rid, "B", col)
       IN  /\ Len(roundTasks(W.timers)) <= MaxRoundTasks
           /\ Commit(W)
    /\ UNCHANGED <<nextRoomId, lastCreateByIp, clock, connected, nextSocketId>>

leaveRoomHandler(W, s, rid) ==
    IF rid \notin W.rooms THEN ErrorMsg(W, s, rid, "room not found")
    ELSE
      LET leavingTeams == teamsOf(W.heap[rid], s)
      IN  IF leavingTeams = {} THEN ErrorMsg(W, s, rid, "you are not in this room")
          ELSE
            LET W1 == vacate(W, rid, leavingTeams)
                W2 == resetRoomAfterLeave(W1, rid)
                W3 == IF hasPlayers(W1.heap[rid])
                      THEN emit(emit(emit(W2,
                               Event("opponentLeft", rid, NoSocket,
                                     Message("opponent left, room reset"))),
                               Event("roomState", rid, NoSocket, publicState(W2.heap[rid]))),
                               Event("waiting", rid, NoSocket,
                                     Message("waiting for the other player")))
                      ELSE [W2 EXCEPT !.rooms = @ \ {rid}]
            IN  emit(W3, Event("roomState", rid, s, publicState(W3.heap[rid])))

leaveRoom(s, rid) ==
    /\ s \in connected
    /\ Commit(leaveRoomHandler(World, s, rid))
    /\ UNCHANGED <<nextRoomId, lastCreateByIp, clock, connected, nextSocketId>>

restartGameHandler(W, s, rid, draws1, draws2) ==
    IF rid \notin W.rooms THEN ErrorMsg(W, s, rid, "room not found")
    ELSE
      LET room == W.heap[rid]
          isPlayer == room.players.A = s \/ room.players.B = s
      IN  IF ~isPlayer THEN ErrorMsg(W, s, rid, "you are not in this room")
          ELSE IF room.players.A = NoSocket \/ room.players.B = NoSocket
          THEN ErrorMsg(W, s, rid, "both players must be in the room")
          ELSE IF room.active THEN ErrorMsg(W, s, rid, "game is not over")
          ELSE LET W1 == startGame(W, rid, draws1, draws2)
               IN  emit(W1, Event("gameStart", rid, NoSocket, publicState(W1.heap[rid])))

restartGame(s, rid, pool) ==
    /\ s \in connected
    /\ \E draws1 \in pool : \E draws2 \in pass2Draws(NoScores, draws1, pool) :
           Commit(restartGameHandler(World, s, rid, draws1, draws2))
    /\ UNCHANGED <<nextRoomId, lastCreateByIp, clock, connected, nextSocketId>>

(* A disconnect that also drops the pending picks of the room *)
dropTeamsAndPicks(W, rid, teams, offlineAt) ==
    IF teams = {} THEN W
    ELSE LET team == IF "A" \in teams THEN "A" ELSE "B"
             W1 == [W EXCEPT !.heap[rid].players[team] = NoSocket]
             W2 == clearDisconnectTimer(resetPicks(W1, rid), rid, team)
             W3 == [W2 EXCEPT !.heap[rid].offlineSince[team] = offlineAt,
                              !.heap[rid].disconnectTimers[team] = TRUE]
         IN  setTimeout(W3, GraceTask(rid, team, offlineAt))

(* The disconnect handler: every room of the registry where s holds a seat *)
RECURSIVE dropTeams(_, _, _, _)
dropTeams(W, rid, teams, offlineAt) ==
    IF teams = {} THEN W
    ELSE LET team == IF "A" \in teams THEN "A" ELSE "B"
             W1 == [W EXCEPT !.heap[rid].players[team] = NoSocket]
             W2 == clearDisconnectTimer(W1, rid, team)
             W3 == [W2 EXCEPT !.heap[rid].offlineSince[team] = offlineAt,
                              !.heap[rid].disconnectTimers[team] = TRUE]
             W4 == setTimeout(W3, GraceTask(rid, team, offlineAt))
         IN  dropTeams(W4, rid, teams \ {team}, offlineAt)

RECURSIVE disconnectFrom(_, _, _, _)
disconnectFrom(W, s, offlineAt, rid) ==
    IF rid > NumRooms THEN W
    ELSE IF rid \notin W.rooms \/ teamsOf(W.heap[rid], s) = {}
         THEN disconnectFrom(W, s, offlineAt, rid + 1)
         ELSE LET W1 == dropTeams(W, rid, teamsOf(W.heap[rid], s), offlineAt)
                  W2 == emit(W1, Event("roomState", rid, NoSocket,
                                       publicState(W1.heap[rid])))
                  W3 == emit(W2, Event("opponentDisconnected", rid, NoSocket,
                                       Message("opponent disconnected")))
              IN  disconnectFrom(W3, s, offlineAt, rid + 1)

disconnect(s, now) ==
    /\ s \in connected
    /\ now \in Readings
    /\ clock' = now
    /\ connected' = connected \ {s}
    /\ Commit(disconnectFrom(World, s, now, 1))
    /\ UNCHANGED <<nextRoomId, lastCreateByIp, nextSocketId>>

---------------------------------------------------------------------------
(* Timer callbacks.  A callback scheduled with delay d at time t runs at
   t + d: timer i may run next unless an earlier-scheduled timer has a delay
   that is not longer. *)

delayOf(task) == IF task.kind = "grace" THEN DisconnectGraceMs ELSE RoundDelayMs

canFire(i) ==
    /\ i \in 1..Len(timers)
    /\ \A j \in 1..(i - 1) : delayOf(timers[j]) > delayOf(timers[i])

removeTimer(W, i) ==
    [W EXCEPT !.timers = [k \in 1..(Len(@) - 1) |-> IF k < i THEN @[k] ELSE @[k + 1]]]

(* A next-round callback that puts its room back into the registry *)
nextRoundHandlerRevive(W, rid, draws1, draws2) ==
    LET W1 == [W EXCEPT !.heap[rid].round = @ + 1, !.rooms = @ \cup {rid}]
        W2 == resetPicks(W1, rid)
        W3 == [W2 EXCEPT !.heap[rid].board =
                   genFairBoard(W2.heap[rid].scores, draws1, draws2)]
    IN  emit(W3, Event("nextRound", rid, NoSocket, publicState(W3.heap[rid])))

(* finishRound's callback of a round below 9 *)
nextRoundHandler(W, rid, draws1, draws2) ==
    LET W1 == [W EXCEPT !.heap[rid].round = @ + 1]
        W2 == resetPicks(W1, rid)
        W3 == [W2 EXCEPT !.heap[rid].board =
                   genFairBoard(W2.heap[rid].scores, draws1, draws2)]
    IN  emit(W3, Event("nextRound", rid, NoSocket, publicState(W3.heap[rid])))

nextRoundTimer(i, pool) ==
    /\ canFire(i)
    /\ timers[i].kind = "next"
    /\ \E draws1 \in pool :
         \E draws2 \in pass2Draws(heap[timers[i].rid].scores, draws1, pool) :
           Commit(nextRoundHandler(removeTimer(World, i), timers[i].rid, draws1, draws2))
    /\ UNCHANGED <<nextRoomId, lastCreateByIp, clock, connected, nextSocketId>>

(* A game-over callback that leaves the picks of round 9 in the room *)
gameOverKeepPicks(W, rid, finalScores, winner) ==
    emit([W EXCEPT !.heap[rid].active = FALSE],
         Event("gameOver", rid, NoSocket,
               [finalScores |-> finalScores, winner |-> winner]))

(* finishRound's callback of round 9 *)
gameOverHandler(W, rid, finalScores, winner) ==
    LET W1 == [W EXCEPT !.heap[rid].active = FALSE]
        W2 == resetPicks(W1, rid)
    IN  emit(W2, Event("gameOver", rid, NoSocket,
                       [finalScores |-> finalScores, winner |-> winner]))

gameOverTimer(i) ==
    /\ canFire(i)
    /\ timers[i].kind = "over"
    /\ Commit(gameOverHandler(removeTimer(World, i), timers[i].rid,
                              timers[i].finalScores, timers[i].winner))
    /\ UNCHANGED <<nextRoomId, lastCreateByIp, clock, connected, nextSocketId>>

(* A grace callback that ends the game and leaves its board in place *)
graceHandlerKeepBoard(W, rid, team, offlineAt) ==
    IF W.heap[rid].offlineSince[team] # offlineAt THEN W
    ELSE
      LET W1 == [W EXCEPT !.heap[rid].active = FALSE]
          W2 == resetPicks(W1, rid)
          W3 == [W2 EXCEPT !.heap[rid].disconnectTimers[team] = FALSE,
                           !.heap[rid].offlineSince[team] = NoTime]
          W4 == emit(W3, Event("opponentLeft", rid, NoSocket,
                               Message("opponent left, game over")))
      IN  emit(W4, Event("roomState", rid, NoSocket, publicState(W4.heap[rid])))

(* The disconnect handler's grace callback *)
graceHandler(W, rid, team, offlineAt) ==
    IF W.heap[rid].offlineSince[team] # offlineAt THEN W
    ELSE
      LET W1 == [W EXCEPT !.heap[rid].active = FALSE]
          W2 == resetPicks(W1, rid)
          W3 == [W2 EXCEPT !.heap[rid].board = NullBoard,
                           !.heap[rid].disconnectTimers[team] = FALSE,
                           !.heap[rid].offlineSince[team] = NoTime]
          W4 == emit(W3, Event("opponentLeft", rid, NoSocket,
                               Message("opponent left, game over")))
      IN  emit(W4, Event("roomState", rid, NoSocket, publicState(W4.heap[rid])))

graceTimer(i) ==
    /\ canFire(i)
    /\ timers[i].kind = "grace"
    /\ Commit(graceHandler(removeTimer(World, i), timers[i].rid,
                           timers[i].team, timers[i].at))
    /\ UNCHANGED <<nextRoomId, lastCreateByIp, clock, connected, nextSocketId>>

---------------------------------------------------------------------------

(* No call of the generator outside a room *)
NoCall ==
    [fair |-> FairMode, rubber |-> RubberBand, scores |-> NoScores,
     draws1 |-> <<>>, draws2 |-> <<>>, board |-> NullBoard]

Init ==
    /\ rooms = {}
    /\ heap = [rid \in RoomIds |-> NewRoom(rid, NoTime)]
    /\ nextRoomId = 1
    /\ lastCreateByIp = [ip \in Ips |-> 0]
    /\ clock = StartTime
    /\ connected = {}
    /\ nextSocketId = 1
    /\ timers = <<>>
    /\ out = <<>>
    /\ resolvedInRound = [rid \in RoomIds |-> 0]
    /\ finalRound = [rid \in RoomIds |-> NotResolved]
    /\ gen = NoCall

(* Spec: one room and two sockets under every interleaving of requests,
   disconnects and timers, through all nine rounds; the players pick row 0
   and column 2; Date.now() stands still. *)
GameRooms == 1..NumGameRooms
GameSockets == 1..NumGameSockets

Next ==
    \/ \E ip \in Ips : nextRoomId <= NumGameRooms /\ createRoom(ip, clock)
    \/ nextSocketId <= NumGameSockets /\ connection
    \/ \E s \in GameSockets, rid \in GameRooms, team \in Teams :
            joinRoom(s, rid, team, Draws)
    \/ \E s \in GameSockets, rid \in GameRooms : pickRow(s, rid, JsNumber(0))
    \/ \E s \in GameSockets, rid \in GameRooms : pickCol(s, rid, JsNumber(2))
    \/ \E s \in GameSockets, rid \in GameRooms : leaveRoom(s, rid)
    \/ \E s \in GameSockets, rid \in GameRooms : restartGame(s, rid, Draws)
    \/ \E s \in GameSockets : disconnect(s, clock)
    \/ \E i \in 1..Len(timers) : nextRoundTimer(i, Draws)
    \/ \E i \in 1..Len(timers) : gameOverTimer(i)
    \/ \E i \in 1..Len(timers) : graceTimer(i)

Spec == Init /\ [][Next]_vars

(* A step that resolves a round after round maxRound *)
resolvesLate(rid, maxRound) ==
    /\ rid \in rooms
    /\ heap[rid].round > maxRound
    /\ Len(roundTasks(timers')) > Len(roundTasks(timers))

(* SpecRooms: all rooms and sockets, with valid inputs; no round is
   resolved, so no round-delay callback is ever pending and no game ends
   in a state where restartGame applies. *)
NextRooms ==
    \/ \E ip \in Ips, now \in Readings : createRoom(ip, now)
    \/ connection
    \/ \E s \in SocketIds, rid \in RoomIds, team \in Teams :
            joinRoom(s, rid, team, Draws)
    \/ \E s \in SocketIds, rid \in RoomIds :
            pickRow(s, rid, JsNumber(0)) /\ ~resolvesLate(rid, 0)
    \/ \E s \in SocketIds, rid \in RoomIds :
            pickCol(s, rid, JsNumber(2)) /\ ~resolvesLate(rid, 0)
    \/ \E s \in SocketIds, rid \in RoomIds : leaveRoom(s, rid)
    \/ \E s \in SocketIds, now \in Readings : disconnect(s, now)
    \/ \E i \in 1..Len(timers) : graceTimer(i)

SpecRooms == Init /\ [][NextRooms]_vars

(* SpecSeats: one room and all sockets, so that a seat left by a disconnect
   can be taken again; rounds are resolved only up to round MaxPlayRound. *)
NextSeats ==
    \/ \E ip \in Ips : nextRoomId <= NumGameRooms /\ createRoom(ip, clock)
    \/ connection
    \/ \E s \in SocketIds, rid \in GameRooms, team \in Teams :
            joinRoom(s, rid, team, Draws)
    \/ \E s \in SocketIds, rid \in GameRooms :
            pickRow(s, rid, JsNumber(0)) /\ ~resolvesLate(rid, MaxPlayRound)
    \/ \E s \in SocketIds, rid \in GameRooms :
            pickCol(s, rid, JsNumber(2)) /\ ~resolvesLate(rid, MaxPlayRound)
    \/ \E s \in SocketIds, rid \in GameRooms : leaveRoom(s, rid)
    \/ \E s \in SocketIds, rid \in GameRooms : restartGame(s, rid, Draws)
    \/ \E s \in SocketIds : disconnect(s, clock)
    \/ \E i \in 1..Len(timers) : nextRoundTimer(i, Draws)
    \/ \E i \in 1..Len(timers) : graceTimer(i)

SpecSeats == Init /\ [][NextSeats]_vars

(* Two rooms and two sockets, one resolved round per game: rooms are
   deleted while their round-delay callbacks are pending and the sockets
   play on in the other room *)
NextOrphans ==
    \/ \E ip \in Ips, now \in Readings : createRoom(ip, now)
    \/ connection /\ nextSocketId <= NumGameSockets
    \/ \E s \in GameSockets, rid \in RoomIds, team \in Teams :
            joinRoom(s, rid, team, Draws)
    \/ \E s \in GameSockets, rid \in RoomIds :
            pickRow(s, rid, JsNumber(0)) /\ ~resolvesLate(rid, 1)
    \/ \E s \in GameSockets, rid \in RoomIds :
            pickCol(s, rid, JsNumber(2)) /\ ~resolvesLate(rid, 1)
    \/ \E s \in GameSockets, rid \in RoomIds : leaveRoom(s, rid)
    \/ \E s \in GameSockets : disconnect(s, clock)
    \/ \E i \in 1..Len(timers) : nextRoundTimer(i, Draws)
    \/ \E i \in 1..Len(timers) : graceTimer(i)

SpecOrphans == Init /\ [][NextOrphans]_vars

(* One room and every socket up to the first resolution of a round: the
   only callbacks are grace callbacks, and a scheduled callback runs when
   its delay has elapsed *)
NextGrace ==
    \/ \E ip \in Ips : nextRoomId <= NumGameRooms /\ createRoom(ip, clock)
    \/ connection
    \/ \E s \in SocketIds, rid \in GameRooms, team \in Teams :
            joinRoom(s, rid, team, Draws)
    \/ \E s \in SocketIds, rid \in GameRooms :
            pickRow(s, rid, JsNumber(0)) /\ ~resolvesLate(rid, 0)
    \/ \E s \in SocketIds, rid \in GameRooms :
            pickCol(s, rid, JsNumber(2)) /\ ~resolvesLate(rid, 0)
    \/ \E s \in SocketIds, rid \in GameRooms : leaveRoom(s, rid)
    \/ \E s \in SocketIds : disconnect(s, clock)
    \/ \E i \in 1..Len(timers) : graceTimer(i)

SpecGrace ==
    /\ Init
    /\ [][NextGrace]_vars
    /\ WF_vars(\E i \in 1..Len(timers) : graceTimer(i))

---------------------------------------------------------------------------
(* The generator alone: one call of genFairBoard for each choice of the
   FAIR_MODE and RUBBER_BAND switches, of the scores and of the values
   randInt returns. *)

(* Raw boards: 1 balanced, 2 all cells (60, -60), 3 balanced with values
   58 from the ends of the range, 4 all cells (4, -4): mean row sum on the
   limit, 5 row sums -90, 0, 90: spread over the limit *)
GenCell(k, r, c) ==
    IF k = 2 THEN Cell(60, -60)
    ELSE IF k = 3 THEN Cell(58 * (((r + c) % 3) - 1), -58 * (((r + c) % 3) - 1))
    ELSE IF k = 4 THEN Cell(4, -4)
    ELSE IF k = 5 THEN Cell(30 * (r - 1), 30 * (c - 1))
    ELSE RawCell(k, r, c)
GenRow(k, r) == <<GenCell(k, r, 0), GenCell(k, r, 1), GenCell(k, r, 2)>>
GenBoard(k) == <<GenRow(k, 0), GenRow(k, 1), GenRow(k, 2)>>
GenBoards == {GenBoard(k) : k \in 1..NumGenBoards}
GenDraws == [1..Candidates -> GenBoards]

(* Totals of up to ten rounds of payoffs in -60..60 *)
GenTotals == {-600, -150, -38, -13, 0, 12, 13, 37, 163, 600}
GenScores == {[A |-> a, B |-> b] : a \in GenTotals, b \in {-600, 0, 13}}

InitGen ==
    /\ rooms = {}
    /\ heap = [rid \in RoomIds |-> NewRoom(rid, NoTime)]
    /\ nextRoomId = 1
    /\ lastCreateByIp = [ip \in Ips |-> 0]
    /\ clock = StartTime
    /\ connected = {}
    /\ nextSocketId = 1
    /\ timers = <<>>
    /\ out = <<>>
    /\ resolvedInRound = [rid \in RoomIds |-> 0]
    /\ finalRound = [rid \in RoomIds |-> NotResolved]
    /\ gen \in {[fair |-> f, rubber |-> rb, scores |-> sc, draws1 |-> d1,
                 draws2 |-> <<>>, board |-> NullBoard] :
                   f \in BOOLEAN, rb \in BOOLEAN, sc \in GenScores, d1 \in GenDraws}

(* genFairBoard(scores) under the switches of gen *)
generate ==
    /\ gen.board = NullBoard
    /\ gen.draws1 # <<>>
    /\ LET bias == rubberBiasWith(gen.rubber, gen.scores)
       IN  \E draws2 \in secondDraws(gen.fair, bias, gen.draws1, GenDraws) :
             gen' = [gen EXCEPT !.draws2 = draws2,
                                !.board = fairBoard(gen.fair, bias, gen.draws1, draws2)]
    /\ UNCHANGED <<rooms, heap, nextRoomId, lastCreateByIp, clock, connected,
                   nextSocketId, timers, out, resolvedInRound, finalRound>>

NextGen == generate

SpecGen == InitGen /\ [][NextGen]_vars

---------------------------------------------------------------------------
(* The lobby: two requester keys create rooms at times from the same
   millisecond to one cooldown apart, three sockets join and leave them, and
   the rooms are listed. *)
LobbyIps == 1..NumLobbyIps
LobbyOffsets == {0, CreateCooldownMs - 1, CreateCooldownMs}
LobbyReadings == {t \in {StartTime + d : d \in LobbyOffsets} : t >= clock}

InitLobby ==
    /\ rooms = {}
    /\ heap = [rid \in RoomIds |-> NewRoom(rid, NoTime)]
    /\ nextRoomId = 1
    /\ lastCreateByIp = [ip \in LobbyIps |-> 0]
    /\ clock = StartTime
    /\ connected = {}
    /\ nextSocketId = 1
    /\ timers = <<>>
    /\ out = <<>>
    /\ resolvedInRound = [rid \in RoomIds |-> 0]
    /\ finalRound = [rid \in RoomIds |-> NotResolved]
    /\ gen = NoCall

NextLobby ==
    \/ \E ip \in LobbyIps, now \in LobbyReadings : createRoomAt(ip, now)
    \/ connection
    \/ \E s \in SocketIds, rid \in RoomIds, team \in Teams :
            joinRoom(s, rid, team, Draws)
    \/ \E s \in SocketIds, rid \in RoomIds : leaveRoom(s, rid)
    \/ listRoomsRequest

SpecLobby == InitLobby /\ [][NextLobby]_vars

(* SpecTwoRooms: all rooms and sockets, and games played to the end. The
   rooms are created one cooldown apart. The sockets of GameSockets play
   each other; the third socket sits alone, in rooms where no one is seated.
   A socket seated in a running game only picks until the game is over,
   while the other sockets join, leave, restart and disconnect as they like;
   picks are sent by every socket to every room, leaves and restarts by the
   sockets seated in the room. *)
Busy(s) == \E rid \in rooms : heap[rid].active /\ teamsOf(heap[rid], s) # {}
Seated(s, rid) == rid \in rooms /\ teamsOf(heap[rid], s) # {}
Partners(s) == IF s \in GameSockets THEN GameSockets ELSE {s}
MayJoin(s, rid) ==
    /\ ~Busy(s)
    /\ \A team \in Teams : heap[rid].players[team] \in Partners(s) \cup {NoSocket}

NextTwoRooms ==
    \/ \E ip \in Ips : createRoom(ip, StartTime + (nextRoomId - 1) * ClockStepMs)
    \/ connection
    \/ \E s \in SocketIds, rid \in RoomIds, team \in Teams :
            MayJoin(s, rid) /\ joinRoom(s, rid, team, Draws)
    \/ \E s \in SocketIds, rid \in RoomIds : pickRow(s, rid, JsNumber(0))
    \/ \E s \in SocketIds, rid \in RoomIds : pickCol(s, rid, JsNumber(2))
    \/ \E s \in SocketIds, rid \in RoomIds :
            Seated(s, rid) /\ ~Busy(s) /\ leaveRoom(s, rid)
    \/ \E s \in SocketIds, rid \in RoomIds :
            Seated(s, rid) /\ ~Busy(s) /\ restartGame(s, rid, Draws)
    \/ \E s \in SocketIds : ~Busy(s) /\ disconnect(s, clock)
    \/ \E i \in 1..Len(timers) : nextRoundTimer(i, Draws)
    \/ \E i \in 1..Len(timers) : gameOverTimer(i)
    \/ \E i \in 1..Len(timers) : graceTimer(i)

SpecTwoRooms == Init /\ [][NextTwoRooms]_vars


(* SpecHigh: Spec without disconnects and with every drawn payoff at an end
   of the range: each cell is drawn as (60, -60), so round 1 pays 60 to A
   and -60 to B and the later rounds what the rubber band leaves of that. *)
HighDraws == [1..Candidates -> {GenBoard(2)}]

NextHigh ==
    \/ \E ip \in Ips : nextRoomId <= NumGameRooms /\ createRoom(ip, clock)
    \/ nextSocketId <= NumGameSockets /\ connection
    \/ \E s \in GameSockets, rid \in GameRooms, team \in Teams :
            joinRoom(s, rid, team, HighDraws)
    \/ \E s \in GameSockets, rid \in GameRooms : pickRow(s, rid, JsNumber(0))
    \/ \E s \in GameSockets, rid \in GameRooms : pickCol(s, rid, JsNumber(2))
    \/ \E s \in GameSockets, rid \in GameRooms : leaveRoom(s, rid)
    \/ \E s \in GameSockets, rid \in GameRooms : restartGame(s, rid, HighDraws)
    \/ \E i \in 1..Len(timers) : nextRoundTimer(i, HighDraws)
    \/ \E i \in 1..Len(timers) : gameOverTimer(i)

SpecHigh == Init /\ [][NextHigh]_vars

(* SpecPlay: one room and two sockets that stay; every kind of room id, team
   and index input and every draw; rounds are resolved only up to round
   MaxPlayRound. *)
PlayIndexInputs == {JsNumber(0), JsNumber(2), JsNumber(3), JsNumber(-1), JsNull, JsUndefined}

NextPlay ==
    \/ \E ip \in Ips : nextRoomId <= NumGameRooms /\ createRoom(ip, clock)
    \/ nextSocketId <= NumGameSockets /\ connection
    \/ \E s \in GameSockets, rid \in RidInputs, team \in TeamInputs :
            joinRoom(s, rid, team, Draws)
    \/ \E s \in GameSockets, rid \in RidInputs, row \in PlayIndexInputs :
            pickRow(s, rid, row) /\ ~resolvesLate(rid, MaxPlayRound)
    \/ \E s \in GameSockets, rid \in RidInputs, col \in PlayIndexInputs :
            pickCol(s, rid, col) /\ ~resolvesLate(rid, MaxPlayRound)
    \/ \E s \in GameSockets, rid \in RidInputs : restartGame(s, rid, Draws)
    \/ \E i \in 1..Len(timers) : nextRoundTimer(i, Draws)

SpecPlay == Init /\ [][NextPlay]_vars

---------------------------------------------------------------------------
(* Properties *)

ResultsOf(evs, rid) ==
    {i \in 1..Len(evs) : evs[i].type = "roundResult" /\ evs[i].rid = rid}
StartsOf(evs, rid) ==
    {i \in 1..Len(evs) : evs[i].type = "gameStart" /\ evs[i].rid = rid}
BothSet(picks) == picks.A # NoPick /\ picks.B # NoPick
PlusCell(scores, cell) == [A |-> scores.A + cell.a, B |-> scores.B + cell.b]

(* C1: a step records the second pick of a round exactly when it emits a
   roundResult; with picks (r, c) it adds board[r][c].a to the row chooser's
   score and board[r][c].b to the column chooser's, and the roundResult
   reports chosen = (r, c), delta = those two values and scores = the prior
   scores plus the deltas. *)
C1_ResolutionDeltas ==
    [][\A rid \in RoomIds :
         LET before == heap[rid]
             after == heap'[rid]
             results == ResultsOf(out', rid)
             second == ~BothSet(before.picks) /\ BothSet(after.picks)
         IN  /\ second <=> results # {}
             /\ second =>
                  LET r == after.picks.A
                      c == after.picks.B
                      cell == before.board[r + 1][c + 1]
                  IN  /\ before.active
                      /\ after.scores = PlusCell(before.scores, cell)
                      /\ \A i \in results :
                           /\ out'[i].data.chosen = [row |-> r, col |-> c]
                           /\ out'[i].data.delta = [A |-> cell.a, B |-> cell.b]
                           /\ out'[i].data.scores = PlusCell(before.scores, cell)]_vars

(* A round-2 resolution of picks (2, 0), off the diagonal of a board whose
   cells (2, 0) and (0, 2) differ *)
C1_Witness ==
    \E i \in 1..Len(out) :
        /\ out[i].type = "roundResult"
        /\ out[i].data.round = 2
        /\ out[i].data.chosen = [row |-> 2, col |-> 0]
        /\ out[i].data.board[3][1] # out[i].data.board[1][3]
        /\ out[i].data.delta.A # 0

(* C2: between a gameStart or nextRound and the next round transition at
   most one roundResult is emitted for the room, a step emits at most one,
   and the scores change (other than by a reset to 0/0) only in a step that
   emits it. *)
C2_ResolvedOnce ==
    [][\A rid \in RoomIds :
         LET results == ResultsOf(out', rid)
         IN  /\ Cardinality(results) <= 1
             /\ resolvedInRound'[rid] <= 1
             /\ (heap'[rid].scores # heap[rid].scores
                    /\ heap'[rid].scores # NoScores) => results # {}]_vars

(* A duplicate pick refused after the round was resolved *)
C2_Witness ==
    \E rid \in rooms :
        /\ resolvedInRound[rid] = 1
        /\ BothSet(heap[rid].picks)
        /\ \E i \in 1..Len(out) :
              /\ out[i].type = "invalidPick"
              /\ out[i].rid = rid
              /\ out[i].data.message = "already picked"

(* C3: the board of a room is non-null if and only if the room is active
   (Active or Resolving); it is null in an Empty, Waiting or Finished room. *)
C3_BoardIffActive ==
    \A rid \in rooms : (heap[rid].board # NullBoard) <=> heap[rid].active

(* C4: from the resolution of round 9 until the next gameStart no pick is
   recorded in the room. *)
C4_NoPickAfterLastRound ==
    [][\A rid \in RoomIds :
         (finalRound[rid].resolved /\ finalRound'[rid].resolved) =>
             \A team \in Teams :
                 heap'[rid].picks[team] \in {NoPick, heap[rid].picks[team]}]_vars

(* C5: while both seats of an active room stay occupied its rounds are
   resolved in order: a nextRound is emitted only after the roundResult of
   the round it leaves, and carries a round number of at most 9. *)
C5_RoundsInOrder ==
    [][\A i \in 1..Len(out') :
         LET rid == out'[i].rid
             seated(room) == room.active /\ room.players.A # NoSocket
                                /\ room.players.B # NoSocket
         IN  (out'[i].type = "nextRound" /\ seated(heap[rid]) /\ seated(heap'[rid]))
                 => /\ resolvedInRound[rid] = 1
                    /\ out'[i].data.round <= LastRound]_vars

(* C6: a gameOver of a game whose round 9 was resolved reports the totals
   after that resolution, and the winner is DRAW for equal totals, else A if
   the row chooser's total is higher, else B. *)
C6_GameOverReport ==
    \A i \in 1..Len(out) :
        out[i].type = "gameOver" =>
            LET f == out[i].data.finalScores
                fr == finalRound[out[i].rid]
            IN  /\ fr.resolved => f = fr.totals
                /\ out[i].data.winner =
                       IF f.A = f.B THEN "DRAW" ELSE IF f.A > f.B THEN "A" ELSE "B"

(* C7: a role holds one socket id or none, and a joinRoom into a role held
   by another socket ends with an errorMsg to the caller and leaves the
   role's occupant as it was. *)
C7_OneIdentityPerRole ==
    [][\A rid \in rooms, team \in Teams :
         /\ heap[rid].players[team] \in {NoSocket} \cup SocketIds
         /\ \A s \in connected :
              (heap[rid].players[team] \notin {NoSocket, s}
                  /\ joinRoom(s, rid, team, Draws))
              => /\ heap'[rid].players[team] = heap[rid].players[team]
                 /\ out' # <<>>
                 /\ out'[Len(out')].type = "errorMsg"
                 /\ out'[Len(out')].to = s]_vars

(* A join refused because the role is taken *)
C7_Witness ==
    \E i \in 1..Len(out) :
        /\ out[i].type = "errorMsg"
        /\ out[i].data = Message("team is taken")
        /\ out[i].rid \in rooms
        /\ \E team \in Teams : heap[out[i].rid].players[team] \notin {NoSocket, out[i].to}

(* C8: a socket occupies at most one seat over all rooms of the registry. *)
SeatsOf(s) == {seat \in rooms \X Teams : heap[seat[1]].players[seat[2]] = s}

C8_OneSeatPerIdentity == \A s \in SocketIds : Cardinality(SeatsOf(s)) <= 1

(* A join that took the socket out of its seat in another room *)
C8_Witness ==
    \E i, j \in 1..Len(out) :
        /\ out[i].type = "opponentLeft"
        /\ out[j].type = "roomState"
        /\ out[j].rid # out[i].rid
        /\ \E s \in SocketIds : \E team \in Teams :
              SeatsOf(s) = {<<out[j].rid, team>>}

(* C9: a joinRoom that succeeds (it announces the room's state) and leaves
   both roles occupied in a room that was not active starts a game in the
   same step: active, round 1,
   scores 0/0, no picks, a board made of the unbiased draws, and a gameStart
   carrying that snapshot; any other successful join starts no game and
   leaves the active flag as it was, so a room with one role stays inactive. *)
C9_AutoStart ==
    [][\A rid \in rooms, team \in Teams : \A s \in connected :
         (/\ heap[rid].players[team] \in {NoSocket, s}
          /\ \E i \in 1..Len(out') : out'[i].type = "roomState" /\ out'[i].rid = rid
          /\ joinRoom(s, rid, team, Draws))
         => LET before == heap[rid]
                after == heap'[rid]
                both == after.players.A # NoSocket /\ after.players.B # NoSocket
                starts == StartsOf(out', rid)
            IN  IF both /\ ~before.active
                THEN /\ after.active
                     /\ after.round = 1
                     /\ after.scores = [A |-> 0, B |-> 0]
                     /\ after.picks = [A |-> NoPick, B |-> NoPick]
                     /\ after.board \in RawBoards
                     /\ starts # {}
                     /\ \A i \in starts :
                          out'[i].data =
                              [roomId |-> rid, players |-> [A |-> TRUE, B |-> TRUE],
                               round |-> 1, scores |-> [A |-> 0, B |-> 0],
                               picks |-> [A |-> NoPick, B |-> NoPick],
                               board |-> after.board, active |-> TRUE]
                ELSE /\ starts = {}
                     /\ after.active = before.active]_vars

(* A join that filled the second role and started the game *)
C9_Witness ==
    \E i, j \in 1..Len(out) :
        /\ i < j
        /\ out[i].type = "roomState"
        /\ ~out[i].data.active
        /\ out[j].type = "gameStart"
        /\ out[j].rid = out[i].rid

(* C10: a pickRow / pickCol is refused, the rooms staying as they were, if
   the room does not exist, is not active, the caller does not hold the
   role, the index is not 0, 1 or 2, or the role already has a pick; in
   every other case the index is recorded as the role's pick. *)
C10_PickValidation ==
    [][\A rid \in RidInputs, team \in Teams, index \in PlayIndexInputs :
         \A s \in connected :
           (IF team = "A" THEN pickRow(s, rid, index) ELSE pickCol(s, rid, index))
           => LET refused ==
                      \/ rid \notin rooms
                      \/ ~heap[rid].active
                      \/ heap[rid].players[team] # s
                      \/ ~(index.t = "number" /\ index.v \in {0, 1, 2})
                      \/ heap[rid].picks[team] # NoPick
              IN  IF refused
                  THEN rooms' = rooms /\ heap' = heap /\ timers' = timers
                  ELSE heap'[rid].picks[team] = index.v]_vars

Occupied(room) == room.players.A # NoSocket /\ room.players.B # NoSocket
LastEventIsErrorTo(evs, s) ==
    evs # <<>> /\ evs[Len(evs)].type = "errorMsg" /\ evs[Len(evs)].to = s

(* C11: restartGame succeeds exactly when the room exists, both seats are
   occupied, the caller holds one of them and the room is not active; then
   the room is as after an auto-start (active, round 1, scores 0/0, no
   picks, a board of unbiased draws) and gameStart carries that snapshot;
   otherwise the caller gets an errorMsg and no room, timer or registry
   entry changes. *)
C11_Restart ==
    [][\A rid \in RoomIds : \A s \in connected :
         restartGame(s, rid, Draws)
         => LET before == heap[rid]
                after == heap'[rid]
                ok == /\ rid \in rooms
                      /\ Occupied(before)
                      /\ s \in {before.players.A, before.players.B}
                      /\ ~before.active
            IN  IF ok
                THEN /\ after.active
                     /\ after.round = 1
                     /\ after.scores = [A |-> 0, B |-> 0]
                     /\ after.picks = [A |-> NoPick, B |-> NoPick]
                     /\ after.board \in RawBoards
                     /\ after.players = before.players
                     /\ rooms' = rooms
                     /\ StartsOf(out', rid) # {}
                     /\ \A i \in StartsOf(out', rid) :
                          out'[i].data =
                              [roomId |-> rid, players |-> [A |-> TRUE, B |-> TRUE],
                               round |-> 1, scores |-> [A |-> 0, B |-> 0],
                               picks |-> [A |-> NoPick, B |-> NoPick],
                               board |-> after.board, active |-> TRUE]
                ELSE /\ heap' = heap
                     /\ rooms' = rooms
                     /\ timers' = timers
                     /\ LastEventIsErrorTo(out', s)]_vars

(* A restart after a finished game that had left scores *)
C11_Witness ==
    /\ Len(out) = 1
    /\ out[1].type = "gameStart"
    /\ out[1].rid \in rooms
    /\ heap[out[1].rid].active
    /\ heap[out[1].rid].round = 1
    /\ heap[out[1].rid].scores = [A |-> 0, B |-> 0]

GraceTasksOf(tms, rid, team) ==
    {i \in 1..Len(tms) : tms[i].kind = "grace" /\ tms[i].rid = rid /\ tms[i].team = team}
Waiting(room) ==
    /\ ~room.active
    /\ room.round = 0
    /\ room.scores = [A |-> 0, B |-> 0]
    /\ room.board = NullBoard
    /\ room.picks = [A |-> NoPick, B |-> NoPick]

(* C12: a leaveRoom by a socket that holds a seat of the room empties every
   seat it holds there and leaves no grace timer pending for those seats; if
   the other seat is occupied the room stays in the registry and is Waiting
   (inactive, round 0, scores 0/0, board null, no picks), otherwise the room
   leaves the registry.  A leaveRoom by a socket that holds no seat of the
   room (or for a room that is not in the registry) ends with an errorMsg
   and changes no room, timer or registry entry. *)
C12_Leave ==
    [][\A rid \in RoomIds : \A s \in connected :
         leaveRoom(s, rid)
         => LET before == heap[rid]
                after == heap'[rid]
                held == IF rid \in rooms THEN teamsOf(before, s) ELSE {}
            IN  IF held # {}
                THEN /\ \A team \in held :
                          /\ after.players[team] = NoSocket
                          /\ GraceTasksOf(timers', rid, team) = {}
                          /\ ~after.disconnectTimers[team]
                     /\ \A team \in Teams \ held :
                          after.players[team] = before.players[team]
                     /\ IF \E team \in Teams \ held : before.players[team] # NoSocket
                        THEN rid \in rooms' /\ Waiting(after)
                        ELSE rooms' = rooms \ {rid}
                ELSE /\ heap' = heap
                     /\ rooms' = rooms
                     /\ timers' = timers
                     /\ LastEventIsErrorTo(out', s)]_vars

(* A leave in the middle of a game, with the delay of a resolved round still
   pending: the remaining player is told and the room is Waiting *)
C12_Witness ==
    \E rid \in rooms :
        /\ \E i \in 1..Len(out) :
             /\ out[i].type = "opponentLeft"
             /\ out[i].rid = rid
             /\ out[i].data = Message("opponent left, room reset")
        /\ Waiting(heap[rid])
        /\ hasPlayers(heap[rid])
        /\ roundTasks(timers) # <<>>

GraceTasksIn(tms, rid) ==
    {i \in 1..Len(tms) : tms[i].kind = "grace" /\ tms[i].rid = rid}

(* C13: a step that takes a room of the registry from "has an occupant or a
   seat in its grace period" to "no occupant and no grace period pending"
   removes it from the registry, and a step after which the room has an
   occupant does not remove it. *)
C13_EmptyRoomsDeleted ==
    [][\A rid \in rooms :
         /\ ( /\ hasPlayers(heap[rid]) \/ GraceTasksIn(timers, rid) # {}
              /\ ~hasPlayers(heap'[rid])
              /\ GraceTasksIn(timers', rid) = {} )
            => rid \notin rooms'
         /\ hasPlayers(heap'[rid]) => rid \in rooms']_vars

(* C14: the step in which a socket disconnects empties every seat it held in
   a room of the registry, sets that seat's offline tag to the time of the
   disconnect and schedules one grace callback carrying that tag, and leaves
   the room's active flag, round, scores, picks and board as they were;
   rooms where it held no seat are untouched. *)
C14_DisconnectFrame ==
    [][\A s \in connected :
         s \notin connected'
         => /\ rooms' = rooms
            /\ \A rid \in rooms :
                 LET before == heap[rid]
                     after == heap'[rid]
                     held == teamsOf(before, s)
                 IN  /\ held = {} => after = before
                     /\ \A team \in held :
                          /\ after.players[team] = NoSocket
                          /\ after.offlineSince[team] = clock'
                          /\ after.disconnectTimers[team]
                          /\ Cardinality(GraceTasksOf(timers', rid, team)) = 1
                          /\ \A i \in GraceTasksOf(timers', rid, team) :
                               timers'[i].at = clock'
                     /\ \A team \in Teams \ held :
                          /\ after.players[team] = before.players[team]
                          /\ after.offlineSince[team] = before.offlineSince[team]
                     /\ after.active = before.active
                     /\ after.round = before.round
                     /\ after.scores = before.scores
                     /\ after.picks = before.picks
                     /\ after.board = before.board]_vars

(* A disconnect in the middle of a round: the seat is empty and in its
   grace period, the game runs on and the pick made before it is kept *)
C14_Witness ==
    \E rid \in rooms : \E team \in Teams :
        /\ \E i \in 1..Len(out) :
             out[i].type = "opponentDisconnected" /\ out[i].rid = rid
        /\ heap[rid].players[team] = NoSocket
        /\ heap[rid].offlineSince[team] # NoTime
        /\ heap[rid].active
        /\ heap[rid].round = 2
        /\ heap[rid].picks # [A |-> NoPick, B |-> NoPick]

LeftEvents(evs, rid) ==
    {i \in 1..Len(evs) : evs[i].type = "opponentLeft" /\ evs[i].rid = rid}
InGrace(room, team) ==
    room.players[team] = NoSocket /\ room.offlineSince[team] # NoTime

(* C15: when a seat of an active room that is empty and in its grace period
   is occupied again, the same step removes the seat's grace callback and
   clears its tag and flag, emits no opponentLeft, and leaves the room
   active with the round, scores, board and picks it had; an occupied seat
   never has a grace callback pending, and a grace callback that runs
   changes its room only if its seat is still empty and carries the
   callback's tag. *)
C15_GraceRejoin ==
    /\ [](\A rid \in rooms : \A team \in Teams :
            heap[rid].players[team] # NoSocket
            => GraceTasksOf(timers, rid, team) = {})
    /\ [][\A rid \in rooms :
            /\ \A team \in Teams :
                 ( /\ heap[rid].active
                   /\ InGrace(heap[rid], team)
                   /\ heap'[rid].players[team] # NoSocket )
                 => /\ GraceTasksOf(timers', rid, team) = {}
                    /\ heap'[rid].offlineSince[team] = NoTime
                    /\ ~heap'[rid].disconnectTimers[team]
                    /\ LeftEvents(out', rid) = {}
                    /\ rid \in rooms'
                    /\ heap'[rid].active
                    /\ heap'[rid].round = heap[rid].round
                    /\ heap'[rid].scores = heap[rid].scores
                    /\ heap'[rid].board = heap[rid].board
                    /\ heap'[rid].picks = heap[rid].picks
            /\ \A i \in GraceTasksIn(timers, rid) :
                 ( /\ heap'[rid] # heap[rid]
                   /\ graceTimer(i) )
                 => /\ InGrace(heap[rid], timers[i].team)
                    /\ timers[i].at = heap[rid].offlineSince[timers[i].team]]_vars

(* The third socket has taken the seat of a player who dropped out of a
   game in its second round: both seats are occupied, the game is running
   with its scores and no grace callback is pending *)
C15_Witness ==
    \E rid \in rooms :
        /\ Len(out) = 1
        /\ out[1].type = "roomState"
        /\ out[1].rid = rid
        /\ Cardinality(connected) = NumSockets - 1
        /\ nextSocketId > NumSockets
        /\ NumSockets \in {heap[rid].players.A, heap[rid].players.B}
        /\ Occupied(heap[rid])
        /\ heap[rid].active
        /\ heap[rid].round = 2
        /\ heap[rid].scores # [A |-> 0, B |-> 0]
        /\ heap[rid].offlineSince = [A |-> NoTime, B |-> NoTime]
        /\ GraceTasksIn(timers, rid) = {}

(* opponentLeft as the grace callback and detachFromOtherRooms send it *)
GameEndReported(evs, rid) ==
    \E i \in LeftEvents(evs, rid) : evs[i].data = Message("opponent left, game over")

(* C16: while a seat of a room is empty and in its grace period its grace
   callback is pending, and the room, if active, is made inactive by no step
   but one that reports the departure (a grace callback, or the detachment
   of the other occupant), reports gameOver, or removes the room from the
   registry; the step in which the seat's callback runs
   emits opponentLeft and leaves the room inactive with a null board and no
   picks; and a seat in its grace period eventually leaves it (its callback
   runs, unless the seat is re-occupied or the room is reset first). *)
C16_GraceExpiry ==
    /\ [](\A rid \in rooms : \A team \in Teams :
            InGrace(heap[rid], team)
            => \E i \in GraceTasksOf(timers, rid, team) :
                 timers[i].at = heap[rid].offlineSince[team])
    /\ [][\A rid \in rooms : \A team \in Teams :
            InGrace(heap[rid], team)
            => /\ ( /\ heap'[rid].players[team] = NoSocket
                    /\ GraceTasksOf(timers', rid, team) = {}
                    /\ rid \in rooms' )
                  => /\ LeftEvents(out', rid) # {}
                     /\ ~heap'[rid].active
                     /\ heap'[rid].board = NullBoard
                     /\ heap'[rid].picks = [A |-> NoPick, B |-> NoPick]
                     /\ ~InGrace(heap'[rid], team)
               /\ (heap[rid].active /\ ~heap'[rid].active /\ rid \in rooms')
                  => \/ GameEndReported(out', rid)
                     \/ \E i \in 1..Len(out') :
                          out'[i].type = "gameOver" /\ out'[i].rid = rid]_vars
    /\ \A rid \in GameRooms : \A team \in Teams :
         (rid \in rooms /\ InGrace(heap[rid], team))
         ~> (rid \in rooms => ~InGrace(heap[rid], team))

(* The grace period of a seat has run out in the first round of a game:
   the remaining player is told, the room is inactive with a null board and
   no picks, and keeps its round *)
C16_Witness ==
    \E rid \in rooms :
        /\ GameEndReported(out, rid)
        /\ hasPlayers(heap[rid])
        /\ ~heap[rid].active
        /\ heap[rid].board = NullBoard
        /\ heap[rid].picks = [A |-> NoPick, B |-> NoPick]
        /\ heap[rid].round = 1
        /\ GraceTasksIn(timers, rid) = {}

(* C17: a step changes the round of a room of the registry only by
   resetting it to 0 in a room it leaves inactive, by setting it to 1 with a
   gameStart, or by adding exactly 1 in an active room whose current round
   has been resolved. *)
C17_RoundSteps ==
    [][\A rid \in rooms :
         heap'[rid].round # heap[rid].round
         => \/ heap'[rid].round = 0 /\ ~heap'[rid].active
            \/ heap'[rid].round = 1 /\ StartsOf(out', rid) # {}
            \/ /\ heap'[rid].round = heap[rid].round + 1
               /\ heap[rid].active
               /\ resolvedInRound[rid] >= 1]_vars

(* C18: the round of every room of the registry is in 0..9, and in 1..9
   while the room is active. *)
C18_RoundRange ==
    \A rid \in rooms :
        /\ heap[rid].round \in 0..LastRound
        /\ heap[rid].active => heap[rid].round \in 1..LastRound

RoundEvents(evs, rid) ==
    {i \in 1..Len(evs) : evs[i].type \in {"nextRound", "gameOver"} /\ evs[i].rid = rid}
RoundTasksOf(tms, rid) ==
    {i \in 1..Len(tms) : tms[i].kind \in {"next", "over"} /\ tms[i].rid = rid}

(* C19: when the delay of a resolved round elapses in a room of the
   registry that a departure has made inactive in the meantime, the step
   emits no nextRound and no gameOver for the room and leaves the room's
   round, board, picks and active flag as they were. *)
C19_DepartureCancelsRound ==
    [][\A rid \in rooms :
         ( /\ ~heap[rid].active
           /\ rid \in rooms'
           /\ Cardinality(RoundTasksOf(timers', rid))
                < Cardinality(RoundTasksOf(timers, rid)) )
         => /\ RoundEvents(out', rid) = {}
            /\ heap'[rid].round = heap[rid].round
            /\ heap'[rid].board = heap[rid].board
            /\ heap'[rid].picks = heap[rid].picks
            /\ heap'[rid].active = heap[rid].active]_vars

(* The timers after the callback at position i has left them *)
Without(tms, i) == [k \in 1..(Len(tms) - 1) |-> IF k < i THEN tms[k] ELSE tms[k + 1]]

(* C20: a round-delay callback leaves the timers only by running (its
   nextRound or gameOver is emitted in that step), whether its room is in
   the registry or not; no grace callback is pending for a room that is not
   in the registry; and the step in which a callback of a room that is not
   in the registry runs leaves the registry and every room of the registry
   as they were. *)
C20_OrphanCallbacks ==
    /\ [](\A i \in 1..Len(timers) :
            timers[i].kind = "grace" => timers[i].rid \in rooms)
    /\ [][/\ Len(roundTasks(timers')) < Len(roundTasks(timers))
             => \E i \in 1..Len(timers) :
                  /\ timers[i].kind # "grace"
                  /\ timers' = Without(timers, i)
                  /\ RoundEvents(out', timers[i].rid) # {}
          /\ \A i \in 1..Len(timers) :
               ( /\ timers[i].rid \notin rooms
                 /\ timers' = Without(timers, i) )
               => /\ rooms' = rooms
                  /\ \A rid \in rooms : heap'[rid] = heap[rid]]_vars

(* The next-round callback of a deleted room has run while a game is
   being played in another room: that game is as it was *)
C20_Witness ==
    \E rid \in RoomIds \ rooms : \E other \in rooms :
        /\ RoundEvents(out, rid) # {}
        /\ heap[other].active
        /\ heap[other].round = 1
        /\ heap[other].picks # [A |-> NoPick, B |-> NoPick]

(* C21: in a room that stays in the registry, the grace callback of a seat
   leaves the timers without running only in a step that occupies the
   seat; and a step that occupies a seat leaves no grace callback pending
   for it. *)
C21_GraceCancelledByJoinOnly ==
    [][\A rid \in rooms : \A team \in Teams :
         /\ ( /\ rid \in rooms'
              /\ GraceTasksOf(timers, rid, team) # {}
              /\ GraceTasksOf(timers', rid, team) = {}
              /\ heap'[rid].players[team] = NoSocket )
            => \E i \in GraceTasksOf(timers, rid, team) : graceTimer(i)
         /\ ( /\ heap[rid].players[team] = NoSocket
              /\ heap'[rid].players[team] # NoSocket )
            => GraceTasksOf(timers', rid, team) = {}]_vars

(* A round transition has run in a room with a seat in its grace period:
   the seat's grace callback is still pending *)
C21_Witness ==
    \E rid \in rooms : \E team \in Teams :
        /\ InGrace(heap[rid], team)
        /\ GraceTasksOf(timers, rid, team) # {}
        /\ \E i \in 1..Len(out) : out[i].type = "nextRound" /\ out[i].rid = rid

(* The call of the generator has returned *)
Generated == gen.draws2 # <<>>
Range(seq) == {seq[i] : i \in 1..Len(seq)}
Places == (1..3) \X (1..3)
(* The integer nearest to d / BIAS_STEP, cut to -MAX_BIAS..MAX_BIAS *)
NearestBias(d) ==
    LET n == CHOOSE k \in -(Abs(d) + 1)..(Abs(d) + 1) : 2 * Abs(BiasStep * k - d) <= BiasStep
    IN  IF n > MaxBias THEN MaxBias ELSE IF n < -MaxBias THEN -MaxBias ELSE n
Clip(v) == IF v > CellMax THEN CellMax ELSE IF v < CellMin THEN CellMin ELSE v
(* board is raw with a shifted by -b and b shifted by +b, cut to the range *)
IsShifted(board, raw, b) ==
    \A p \in Places :
        board[p[1]][p[2]] = Cell(Clip(raw[p[1]][p[2]].a - b), Clip(raw[p[1]][p[2]].b + b))

(* C22: for every pair of scores the bias is in -MAX_BIAS..MAX_BIAS, and
   every payoff of the returned board is within MAX_BIAS of the value drawn
   for it. *)
C22_BiasBounded ==
    Generated
    => /\ rubberBiasWith(gen.rubber, gen.scores) \in -MaxBias..MaxBias
       /\ \E raw \in Range(gen.draws1) \cup Range(gen.draws2) :
            \A p \in Places :
               /\ Abs(gen.board[p[1]][p[2]].a - raw[p[1]][p[2]].a) <= MaxBias
               /\ Abs(gen.board[p[1]][p[2]].b - raw[p[1]][p[2]].b) <= MaxBias

(* A score differential of 48 steps: the payoffs are shifted by MAX_BIAS *)
C22_Witness ==
    /\ Generated
    /\ gen.fair /\ gen.rubber
    /\ gen.scores.A - gen.scores.B >= 8 * MaxBias * BiasStep
    /\ \E raw \in Range(gen.draws1) \cup Range(gen.draws2) :
         \E p \in Places :
            /\ gen.board[p[1]][p[2]].a = raw[p[1]][p[2]].a - MaxBias
            /\ gen.board[p[1]][p[2]].b = raw[p[1]][p[2]].b + MaxBias

(* C23: with both switches on the returned board is a drawn board with
   every a shifted by -b and every b by +b (then cut to the range), where
   b is the integer nearest to (scores.A - scores.B) / BIAS_STEP cut to
   -MAX_BIAS..MAX_BIAS; b is 0 for equal totals and changes sign with the
   differential; with RUBBER_BAND off the shift is 0, and with FAIR_MODE
   off the board is the first drawn board as drawn. *)
C23_BiasRule ==
    Generated
    => LET d == gen.scores.A - gen.scores.B
           b == IF gen.rubber THEN NearestBias(d) ELSE 0
       IN  /\ NearestBias(-d) = -NearestBias(d)
           /\ d = 0 => b = 0
           /\ gen.fair
              => \E raw \in Range(gen.draws1) \cup Range(gen.draws2) :
                    IsShifted(gen.board, raw, b)
           /\ ~gen.fair => gen.board = gen.draws1[1]

(* Row chooser ahead by one step and a half: its payoffs are one lower than
   drawn and the column chooser's one higher *)
C23_Witness ==
    /\ Generated
    /\ gen.fair /\ gen.rubber
    /\ gen.scores = [A |-> 37, B |-> 0]
    /\ \E raw \in Range(gen.draws1) :
         /\ IsShifted(gen.board, raw, 1)
         /\ gen.board # raw

(* C24: every board the generator returns, under either setting of the
   switches and for every score pair, has three rows of three cells with
   both payoffs integers in -60..60. *)
C24_PayoffRange ==
    Generated
    => /\ Len(gen.board) = 3
       /\ \A r \in 1..3 :
            /\ Len(gen.board[r]) = 3
            /\ \A c \in 1..3 :
                 /\ gen.board[r][c].a \in CellMin..CellMax
                 /\ gen.board[r][c].b \in CellMin..CellMax

(* A drawn payoff of 60 under a bias that would take it to 66: the board
   has 60 *)
C24_Witness ==
    /\ Generated
    /\ gen.fair /\ gen.rubber
    /\ gen.scores.A - gen.scores.B <= -(MaxBias * BiasStep)
    /\ \E raw \in Range(gen.draws1) \cup Range(gen.draws2) :
         /\ IsShifted(gen.board, raw, -MaxBias)
         /\ \E p \in Places :
              /\ raw[p[1]][p[2]].a = CellMax
              /\ gen.board[p[1]][p[2]].a = CellMax
              /\ gen.board[p[1]][p[2]].b = CellMin

(* The candidates of a draw under bias b, and the hard constraints stated
   on the sums: three times the mean row (column) sum is the sum of all a
   (all b) *)
CandidatesOf(draws, b) ==
    {genCandidateBoard(draws[i], -b, b) : i \in 1..Len(draws)}
TotalA(board) == Sum3(rowSumA(board))
TotalB(board) == Sum3(colSumB(board))
MeetsHard(board) ==
    /\ Abs(TotalA(board)) <= 3 * MeanLimit
    /\ Abs(TotalB(board)) <= 3 * MeanLimit
    /\ \A i, j \in 1..3 :
         /\ rowSumA(board)[i] - rowSumA(board)[j] <= SpreadLimit
         /\ colSumB(board)[i] - colSumB(board)[j] <= SpreadLimit
Lowest(board, cands) ==
    /\ board \in cands
    /\ \A other \in cands : scoreBoard(board).score <= scoreBoard(other).score

(* C25: with FAIR_MODE on, if some candidate of the first draw meets the
   hard constraints, the returned board is one of the candidates that meet
   them and none of those has a lower score. *)
C25_BestSurvivor ==
    (Generated /\ gen.fair)
    => LET b == rubberBiasWith(gen.rubber, gen.scores)
           ok == {cand \in CandidatesOf(gen.draws1, b) : MeetsHard(cand)}
       IN  ok # {} => Lowest(gen.board, ok)

(* Two candidates meet the hard constraints and the second has the lower
   score: it is the board returned *)
C25_Witness ==
    /\ Generated
    /\ gen.fair
    /\ LET b == rubberBiasWith(gen.rubber, gen.scores)
           first == genCandidateBoard(gen.draws1[1], -b, b)
           second == genCandidateBoard(gen.draws1[2], -b, b)
       IN  /\ MeetsHard(first) /\ MeetsHard(second)
           /\ scoreBoard(second).score < scoreBoard(first).score
           /\ gen.board = second

(* C26: every call returns a board; with FAIR_MODE on, when no candidate
   of the first draw meets the hard constraints, the board is the
   lowest-scoring candidate of a second draw. *)
C26_AlwaysABoard ==
    Generated
    => /\ gen.board # NullBoard
       /\ gen.fair
          => LET b == rubberBiasWith(gen.rubber, gen.scores)
             IN  (\A cand \in CandidatesOf(gen.draws1, b) : ~MeetsHard(cand))
                 => Lowest(gen.board, CandidatesOf(gen.draws2, b))

(* The first draw is balanced but the bias takes its mean over the limit;
   the board comes from a second draw that differs from the first *)
C26_Witness ==
    /\ Generated
    /\ gen.fair /\ gen.rubber
    /\ LET b == rubberBiasWith(gen.rubber, gen.scores)
       IN  /\ \A raw \in Range(gen.draws1) : MeetsHard(raw)
           /\ \A cand \in CandidatesOf(gen.draws1, b) : ~MeetsHard(cand)
           /\ gen.board \in CandidatesOf(gen.draws2, b)
           /\ gen.board \notin CandidatesOf(gen.draws1, b)

(* C27: a create request by a key is rejected exactly when the time since
   the key's last successful creation is below the cooldown; a rejection
   adds no room, leaves the recorded times as they were and reports the
   remaining wait rounded up to whole seconds, at least 1; a request that
   is not rejected adds one room and records its time for the key. *)
C27_CreateCooldown ==
    [][\A ip \in DOMAIN lastCreateByIp : \A now \in LobbyReadings :
         createRoomAt(ip, now)
         => LET remaining == CreateCooldownMs - (now - lastCreateByIp[ip])
            IN  IF remaining > 0
                THEN /\ out'[1].type = "429"
                     /\ rooms' = rooms
                     /\ heap' = heap
                     /\ lastCreateByIp' = lastCreateByIp
                     /\ out'[1].data.wait >= 1
                     /\ 1000 * out'[1].data.wait >= remaining
                     /\ 1000 * (out'[1].data.wait - 1) < remaining
                ELSE /\ out'[1].type = "200"
                     /\ Cardinality(rooms') = Cardinality(rooms) + 1
                     /\ rooms \subseteq rooms'
                     /\ lastCreateByIp'[ip] = now
                     /\ \A other \in DOMAIN lastCreateByIp \ {ip} :
                          lastCreateByIp'[other] = lastCreateByIp[other]]_vars

(* A request one millisecond before the cooldown of the key's last creation
   is over: rejected with a wait of 1 second *)
C27_Witness ==
    /\ Len(out) = 1
    /\ out[1].type = "429"
    /\ out[1].data.wait = 1
    /\ rooms # {}
    /\ \E ip \in DOMAIN lastCreateByIp :
         clock - lastCreateByIp[ip] = CreateCooldownMs - 1

Listing == out[1].data.rooms
WasListed == Len(out) = 1 /\ out[1].type = "rooms"

(* C28: the listing has one summary for each room of the registry with an
   occupied seat and no other, newest creation time first; a summary gives
   the room's occupancy of A and B, its active flag and its creation time,
   and as open role the unoccupied role if exactly one seat is occupied and
   none if both are. *)
C28_Listing ==
    WasListed
    => /\ {Listing[i].roomId : i \in 1..Len(Listing)}
            = {rid \in rooms : hasPlayers(heap[rid])}
       /\ \A i, j \in 1..Len(Listing) :
            /\ i # j => Listing[i].roomId # Listing[j].roomId
            /\ i < j => Listing[i].createdAt >= Listing[j].createdAt
       /\ \A i \in 1..Len(Listing) :
            LET room == heap[Listing[i].roomId]
                seats == {team \in Teams : room.players[team] # NoSocket}
            IN  /\ Listing[i].players = [A |-> "A" \in seats, B |-> "B" \in seats]
                /\ Listing[i].active = room.active
                /\ Listing[i].createdAt = room.createdAt
                /\ seats = Teams => Listing[i].availableTeam = NoTeam
                /\ \A team \in Teams :
                     seats = {team} => Listing[i].availableTeam = otherTeam(team)

(* Two rooms are listed, the younger first: it has a game running and no
   open role, the older has one player and role B or A open; or the other
   way round *)
C28_Witness ==
    /\ WasListed
    /\ Cardinality(rooms) = 2
    /\ Len(Listing) = 2
    /\ Listing[1].createdAt > Listing[2].createdAt
    /\ {Listing[1].availableTeam, Listing[2].availableTeam} \in {{NoTeam, "A"}, {NoTeam, "B"}}
    /\ \E i \in 1..2 : Listing[i].active

ChangedRooms == {rid \in RoomIds : heap'[rid] # heap[rid]}
HeldBy(s) == {rid \in RoomIds : rid \in rooms /\ teamsOf(heap[rid], s) # {}}

(* C29: a pick, a restart or a leave addressed to a room, and a next-round,
   game-over or grace callback of a room, change the record of no other
   room and add or remove no other room; a join changes, besides the room
   joined, only rooms in which the joining socket held a seat. *)
C29_RoomsIndependent ==
    [][/\ \A rid \in RoomIds :
            \/ /\ ChangedRooms \subseteq {rid}
               /\ rooms' \ {rid} = rooms \ {rid}
            \/ ~ \E s \in SocketIds :
                  \/ pickRow(s, rid, JsNumber(0))
                  \/ pickCol(s, rid, JsNumber(2))
                  \/ leaveRoom(s, rid)
                  \/ restartGame(s, rid, Draws)
       /\ \A i \in 1..Len(timers) :
            \/ /\ ChangedRooms \subseteq {timers[i].rid}
               /\ rooms' \ {timers[i].rid} = rooms \ {timers[i].rid}
            \/ ~ (nextRoundTimer(i, Draws) \/ gameOverTimer(i) \/ graceTimer(i))
       /\ \A s \in SocketIds, rid \in RoomIds :
            \/ /\ ChangedRooms \subseteq {rid} \cup HeldBy(s)
               /\ rooms' \ ({rid} \cup HeldBy(s)) = rooms \ ({rid} \cup HeldBy(s))
            \/ ~ \E team \in Teams : joinRoom(s, rid, team, Draws)]_vars

(* The last request was a restart of room 1 after a finished game, while
   room 2 holds a seat in its grace period *)
C29_Witness ==
    /\ rooms = {1, 2}
    /\ heap[1].active /\ heap[1].round = 1
    /\ Len(out) = 1 /\ out[1].type = "gameStart" /\ out[1].rid = 1
    /\ \E i \in 1..Len(timers) : timers[i].kind = "grace" /\ timers[i].rid = 2

Recorded(rid) ==
    {team \in Teams : heap[rid].picks[team] = NoPick /\ heap'[rid].picks[team] # NoPick}

(* C30: a room's round number never changes while a pick is kept: a step
   that changes it leaves both picks empty, so the picks of a resolution
   were recorded in the round it resolves, and the roundResult reports that
   round and those picks; a pick is recorded only when the room's last
   round-level event was a gameStart or a nextRound and not a resolution;
   every nextRound and gameStart snapshot shows both picks empty. *)
C30_NoPickLeakage ==
    [][/\ \A rid \in RoomIds :
            /\ heap'[rid].round # heap[rid].round => heap'[rid].picks = NoPicks
            /\ Recorded(rid) # {}
               => /\ resolvedInRound[rid] = 0
                  /\ heap[rid].active
                  /\ \A team \in Teams \ Recorded(rid) :
                       heap'[rid].picks[team] = heap[rid].picks[team]
       /\ \A i \in 1..Len(out') :
            /\ out'[i].type \in {"nextRound", "gameStart"}
               => out'[i].data.picks = NoPicks
            /\ out'[i].type = "roundResult"
               => /\ out'[i].data.round = heap[out'[i].rid].round
                  /\ out'[i].data.chosen.row = heap'[out'[i].rid].picks.A
                  /\ out'[i].data.chosen.col = heap'[out'[i].rid].picks.B
                  /\ Recorded(out'[i].rid) # {}]_vars

(* In round 2, after a round transition, the round has been resolved and a
   further pick got the answer that the player has picked already *)
C30_Witness ==
    /\ Len(out) = 1
    /\ out[1].type = "invalidPick"
    /\ out[1].data.message = "already picked"
    /\ heap[out[1].rid].round = 2
    /\ BothSet(heap[out[1].rid].picks)
    /\ resolvedInRound[out[1].rid] = 1

IsReset(room) ==
    /\ ~room.active
    /\ room.round = 0
    /\ room.scores = NoScores
    /\ room.board = NullBoard
    /\ room.picks = NoPicks
Rejected(evs, s) == \E i \in 1..Len(evs) : evs[i].type = "errorMsg" /\ evs[i].to = s

(* C31: when a socket seated in room Y joins another room X and is not
   rejected, Y no longer seats it and has no grace timer or disconnect tag
   left for the seat; if Y's other seat is occupied, Y stays in the
   registry, is reset (inactive, round 0, scores 0/0, board null, picks
   empty), keeps the other occupant and gets an opponentLeft; if not, Y is
   deleted from the registry. *)
C31_JoinDetaches ==
    [][\A s \in SocketIds, X \in RoomIds, team \in Teams :
         (/\ HeldBy(s) \ {X} # {}
          /\ heap'[X].players[team] = s
          /\ ~Rejected(out', s)
          /\ joinRoom(s, X, team, Draws))
         => \A Y \in HeldBy(s) \ {X} :
              /\ teamsOf(heap'[Y], s) = {}
              /\ \A t \in teamsOf(heap[Y], s) :
                   /\ GraceTasksOf(timers', Y, t) = {}
                   /\ ~heap'[Y].disconnectTimers[t]
                   /\ heap'[Y].offlineSince[t] = NoTime
              /\ IF \E t \in Teams : heap[Y].players[t] \notin {NoSocket, s}
                 THEN /\ Y \in rooms'
                      /\ IsReset(heap'[Y])
                      /\ \A t \in Teams \ teamsOf(heap[Y], s) :
                           heap'[Y].players[t] = heap[Y].players[t]
                      /\ \E i \in 1..Len(out') :
                           out'[i].type = "opponentLeft" /\ out'[i].rid = Y
                 ELSE Y \notin rooms']_vars

(* The last player of room 1 has moved to room 2, where the game starts:
   room 1 is reset and deleted from the registry *)
C31_Witness ==
    /\ rooms = {2}
    /\ IsReset(heap[1])
    /\ heap[2].active
    /\ \E i \in 1..Len(out) : out[i].type = "opponentLeft" /\ out[i].rid = 1
    /\ \E i \in 1..Len(out) : out[i].type = "gameStart" /\ out[i].rid = 2

(* C32: a join answered with an errorMsg changes no room record and leaves
   the registry as it was. *)
C32_RejectedJoinFrame ==
    [][\A s \in SocketIds, rid \in RoomIds, team \in Teams :
         (Rejected(out', s) /\ joinRoom(s, rid, team, Draws))
         => /\ heap' = heap
            /\ rooms' = rooms]_vars

(* The events of evs that reach socket s seated in room rid: those sent to
   it and those broadcast to the room *)
DeliveredTo(evs, rid, s) ==
    LET Reaches(e) == e.to = s \/ (e.to = NoSocket /\ e.rid = rid)
    IN  SelectSeq(evs, Reaches)

(* C33: while the occupant of a role of a running game has not picked in the
   current round, the events it receives when the opponent picks are the
   same whatever valid value the opponent picks. *)
C33_PickHidden ==
    \A rid \in rooms : \A team \in Teams :
        LET me == heap[rid].players[team]
            opp == heap[rid].players[otherTeam(team)]
        IN  (/\ heap[rid].active
             /\ me # NoSocket
             /\ opp # NoSocket
             /\ heap[rid].picks[team] = NoPick)
            => \A v1, v2 \in 0..2 :
                 DeliveredTo(pickHandler(World, opp, rid, otherTeam(team),
                                         JsNumber(v1)).out, rid, me)
                 = DeliveredTo(pickHandler(World, opp, rid, otherTeam(team),
                                           JsNumber(v2)).out, rid, me)

(* C34: in an active room of the registry every unoccupied seat has a grace
   timer pending. *)
C34_AbsentSeatHasTimer ==
    \A rid \in rooms : \A team \in Teams :
        (heap[rid].active /\ heap[rid].players[team] = NoSocket)
        => GraceTasksOf(timers, rid, team) # {}

EventsOf(evs, rid, type) ==
    {i \in 1..Len(evs) : evs[i].type = type /\ evs[i].rid = rid}

(* C35: a running game gets a nextRound (round incremented, picks and board
   replaced) only when its current round has been resolved since its
   gameStart, and a gameOver only when its round 9 has been resolved since
   its gameStart. *)
C35_OwnTransitionsOnly ==
    [][\A rid \in rooms :
         heap[rid].active
         => /\ EventsOf(out', rid, "nextRound") # {} => resolvedInRound[rid] >= 1
            /\ EventsOf(out', rid, "gameOver") # {} => finalRound[rid].resolved]_vars

(* C36: an active room of the registry has a board and a round of at least
   1, and an inactive one has no pick; every roundResult carries a board. *)
C36_ActiveHasBoard ==
    /\ \A rid \in rooms :
        /\ heap[rid].active => heap[rid].board # NullBoard /\ heap[rid].round >= 1
        /\ ~heap[rid].active => heap[rid].picks = NoPicks
    /\ \A i \in 1..Len(out) :
        out[i].type = "roundResult" => out[i].data.board # NullBoard

(* The game-over callback has run after the resolution of round 9: the room
   is inactive and the two picks of round 9 are gone *)
C36_Witness ==
    \E rid \in rooms :
        /\ ~heap[rid].active
        /\ heap[rid].round = LastRound
        /\ finalRound[rid].resolved
        /\ heap[rid].picks = NoPicks
        /\ EventsOf(out, rid, "gameOver") # {}

(* C37: for each room of the registry and each role, the offlineSince tag is
   set exactly when a grace timer is pending for the role, which is when the
   room's timer handle for the role is set; there is at most one such timer,
   it carries the tag, and the role's seat is unoccupied while it is
   pending. *)
C37_TagIffTimer ==
    \A rid \in rooms : \A team \in Teams :
        LET pending == GraceTasksOf(timers, rid, team)
        IN  /\ heap[rid].offlineSince[team] # NoTime <=> pending # {}
            /\ heap[rid].disconnectTimers[team] <=> pending # {}
            /\ Cardinality(pending) <= 1
            /\ \A i \in pending :
                 /\ timers[i].at = heap[rid].offlineSince[team]
                 /\ heap[rid].players[team] = NoSocket

(* Seat A of a running game is in its grace period, tagged with a reading
   later than the first, while the opponent sits in B *)
C37_Witness ==
    \E rid \in rooms :
        /\ heap[rid].offlineSince.A > StartTime
        /\ GraceTasksOf(timers, rid, "A") # {}
        /\ heap[rid].players.B # NoSocket
        /\ heap[rid].active

(* C38: a room of the registry that is inactive and has fewer than two
   occupied seats is at round 0 with both scores 0. *)
C38_IdleRoomIsFresh ==
    \A rid \in rooms :
        (/\ ~heap[rid].active
         /\ \E team \in Teams : heap[rid].players[team] = NoSocket)
        => /\ heap[rid].round = 0
           /\ heap[rid].scores = NoScores

(* C39: in every room of the registry each score is at most 60 times the
   round in magnitude and at most 540, and every gameStart snapshot shows
   both scores 0. *)
C39_ScoreBound ==
    /\ \A rid \in rooms : \A team \in Teams :
         /\ Abs(heap[rid].scores[team]) <= CellMax * heap[rid].round
         /\ Abs(heap[rid].scores[team]) <= CellMax * LastRound
    /\ \A i \in 1..Len(out) :
         out[i].type = "gameStart" => out[i].data.scores = NoScores

(* Round 1 has been resolved at the ends of the range: the scores are 60
   and -60, 60 times the round *)
C39_Witness ==
    \E rid \in rooms :
        /\ heap[rid].round = 1
        /\ heap[rid].scores = [A |-> CellMax, B |-> CellMin]

====
